---- MODULE Spec2Model ----
(***************************************************************************)
(* Smart-Pricing-Buddy: the query-to-ranked-result pipeline of             *)
(* backend/app/agents/orchestrator.py and the engines it calls.            *)
(*                                                                         *)
(* Units: money is in cents, ratings in tenths, ranking weights in         *)
(* hundred-thousandths, value_score in ten-thousandths (the code rounds it *)
(* to 4 decimals).  An optional value is <<>> (None) or <<v>>.             *)
(***************************************************************************)
EXTENDS Integers, Sequences, FiniteSets, TLC

VARIABLES
    pc,         \* position of execute_search: the graph node about to run
    request,    \* the SearchRequest and user_id execute_search was called with
    state,      \* the AgentState of the running request
    merged_filters, \* search_node's local: the filters handed to the agent
    tasks,      \* search stage: platform -> outcome of its spawned adapter task
    response,   \* what execute_search returned to its caller
    profiles,   \* user_profile_agent._PROFILES
    started,    \* graph nodes in the order they started
    finished    \* graph nodes in the order they finished

vars == <<pc, request, state, merged_filters, tasks, response, profiles, started, finished>>

-----------------------------------------------------------------------------
(* Optional values *)

None == <<>>
Some(v) == <<v>>
Val(x) == x[1]
\* Python truthiness of an optional number: None and 0 are falsy
Truthy(x) == x # None /\ Val(x) # 0

-----------------------------------------------------------------------------
(* Bounds of the model *)

\* offers one adapter call returns at most
MaxOffersPerAdapter == 1
\* budget_max values a caller may send (cents)
BudgetChoices == {None, Some(2000)}
Users == {"u1"}

-----------------------------------------------------------------------------
(* enums.py *)

SearchCategory == {"food", "product", "ride", "hotel"}
\* the order of the scores dict of _detect_category
CategoryOrder == <<"food", "product", "ride", "hotel">>

PENDING == "pending"
PROCESSING == "processing"
COMPLETED == "completed"
FAILED == "failed"
PARTIAL == "partial"
SearchStatus == {PENDING, PROCESSING, COMPLETED, FAILED, PARTIAL}

\* PLATFORM_SEARCHERS of the four search agents, in insertion order
PLATFORM_SEARCHERS(category) ==
    CASE category = "food" -> <<"uber_eats", "doordash", "grubhub", "postmates">>
      [] category = "product" -> <<"amazon", "ebay", "walmart", "target", "bestbuy">>
      [] category = "ride" -> <<"uber", "lyft", "taxi">>
      [] category = "hotel" -> <<"booking", "expedia", "airbnb", "hotels_com", "vrbo">>

\* OrchestratorAgent._category_agent_map: the categories that have an agent
category_agent_map == {"food", "product", "ride", "hotel"}

Range(s) == {s[i] : i \in 1..Len(s)}

Platform == UNION {Range(PLATFORM_SEARCHERS(c)) : c \in SearchCategory}

\* deal_agent._PLATFORM_CATEGORY
PLATFORM_CATEGORY(p) ==
    CHOOSE c \in SearchCategory : p \in Range(PLATFORM_SEARCHERS(c))

-----------------------------------------------------------------------------
(* Arithmetic *)

Min(a, b) == IF a <= b THEN a ELSE b
Max(a, b) == IF a >= b THEN a ELSE b

RECURSIVE SeqMin(_)
SeqMin(s) == IF Len(s) = 1 THEN s[1] ELSE Min(s[1], SeqMin(Tail(s)))

RECURSIVE SeqMax(_)
SeqMax(s) == IF Len(s) = 1 THEN s[1] ELSE Max(s[1], SeqMax(Tail(s)))

\* Python round() of the rational n/d (d > 0) to an integer of the unit in
\* use: to nearest, a tie to the even neighbour
Round(n, d) ==
    LET q == n \div d
        r == n - q * d
    IN  IF 2 * r < d THEN q
        ELSE IF 2 * r > d THEN q + 1
        ELSE IF q % 2 = 0 THEN q ELSE q + 1

-----------------------------------------------------------------------------
(* schemas.py: PriceBreakdown, SearchResultItem, as the agents build them *)

PriceBreakdown(base, delivery, service, tax, total) ==
    [base_price |-> base, delivery_fee |-> delivery, service_fee |-> service,
     tax |-> tax, tip |-> 0, discount |-> 0, total |-> total]

SearchResultItem(platform, item, base, total, breakdown, time, rating) ==
    [platform |-> platform, item_name |-> item, base_price |-> base,
     total_price |-> total, fees_breakdown |-> breakdown,
     delivery_time_min |-> time, rating |-> rating,
     value_score |-> None, rank |-> None, savings_vs_max |-> None,
     deals_applied |-> <<>>]

\* What a platform searcher returns for one item: the fields the four
\* _normalise methods read.  fee_a is delivery_fee / shipping, fee_b is
\* service_fee / booking_fee / resort_fee + service_fee, time is
\* delivery_time / delivery_days / eta_min.
RawOffer(platform, item, base) ==
    LET category == PLATFORM_CATEGORY(platform)
    IN  [platform |-> platform, name |-> item, base |-> base,
         fee_a |-> IF category \in {"food", "product"} THEN 200 ELSE 0,
         fee_b |-> IF category = "product" THEN 0 ELSE 100,
         tax |-> 100,
         time |-> IF category = "hotel" THEN None
                  ELSE IF category = "product" THEN Some(2) ELSE Some(30),
         rating |-> Some(40)]

\* FoodDeliveryAgent._normalise
normalise_food(raw) ==
    LET total == raw.base + raw.fee_a + raw.fee_b + raw.tax
    IN  SearchResultItem(raw.platform, raw.name, raw.base, total,
            Some(PriceBreakdown(raw.base, raw.fee_a, raw.fee_b, raw.tax, total)),
            raw.time, raw.rating)

\* ECommerceAgent._normalise: delivery_days become minutes, no service fee
normalise_product(raw) ==
    LET total == raw.base + raw.fee_a + raw.tax
    IN  SearchResultItem(raw.platform, raw.name, raw.base, total,
            Some(PriceBreakdown(raw.base, raw.fee_a, 0, raw.tax, total)),
            IF Truthy(raw.time) THEN Some(Val(raw.time) * 24 * 60) ELSE None,
            raw.rating)

\* RideSharingAgent._normalise: the booking fee is the service fee
normalise_ride(raw) ==
    LET total == raw.base + raw.fee_b + raw.tax
    IN  SearchResultItem(raw.platform, raw.name, raw.base, total,
            Some(PriceBreakdown(raw.base, 0, raw.fee_b, raw.tax, total)),
            raw.time, raw.rating)

\* HotelAgent._normalise (one night): no delivery time
normalise_hotel(raw) ==
    LET total == raw.base + raw.tax + raw.fee_b
    IN  SearchResultItem(raw.platform, raw.name, raw.base, total,
            Some(PriceBreakdown(raw.base, 0, raw.fee_b, raw.tax, total)),
            None, raw.rating)

normalise(category, raw) ==
    CASE category = "food" -> normalise_food(raw)
      [] category = "product" -> normalise_product(raw)
      [] category = "ride" -> normalise_ride(raw)
      [] category = "hotel" -> normalise_hotel(raw)

-----------------------------------------------------------------------------
(* deal_agent.py *)

DealRead(platform, code, description, amount, percent, min_order, max_discount) ==
    [platform |-> platform, code |-> code, description |-> description,
     discount_amount |-> amount, discount_percent |-> percent,
     min_order |-> min_order, max_discount |-> max_discount]

\* deal_agent._SAMPLE_DEALS, in list order
SAMPLE_DEALS ==
    << DealRead("uber_eats", Some("EAT20OFF"), "20% off your first order",
                None, Some(20), None, Some(1000)),
       DealRead("doordash", Some("DASH5"), "$5 off orders over $25",
                Some(500), None, Some(2500), None),
       DealRead("amazon", None, "5% cashback with Amazon Prime credit card",
                None, Some(5), None, None),
       DealRead("uber", Some("RIDE10"), "$10 off next ride",
                Some(1000), None, None, None),
       DealRead("booking", None, "Genius member 15% discount",
                None, Some(15), None, None),
       DealRead("lyft", Some("LYFT15"), "15% off next 3 rides",
                None, Some(15), None, Some(800)),
       DealRead("walmart", None, "Flash sale - up to 30% off electronics",
                None, Some(30), None, None),
       DealRead("airbnb", None, "Weekly stay discount - 10% off 7+ nights",
                None, Some(10), None, None) >>

\* DealFinderAgent.find_deals: the sample deals of the category's platforms
find_deals(category) ==
    SelectSeq(SAMPLE_DEALS, LAMBDA d : PLATFORM_CATEGORY(d.platform) = category)

\* the label apply_deals appends: the description, with the code if it has one
DealLabel(deal) ==
    IF deal.code # None THEN <<deal.description, "code", Val(deal.code)>>
    ELSE <<deal.description>>

\* the discount before the clamp and the rounding, in hundredths of a cent:
\* the amount if it is truthy, else the percentage of the price if that is
\* truthy, else 0
RawDiscount(total_price, deal) ==
    IF Truthy(deal.discount_amount) THEN 100 * Val(deal.discount_amount)
    ELSE IF Truthy(deal.discount_percent)
         THEN total_price * Val(deal.discount_percent)
    ELSE 0

\* the clamp to max_discount, made if max_discount is truthy
ClampDiscount(raw, deal) ==
    IF Truthy(deal.max_discount) THEN Min(raw, 100 * Val(deal.max_discount))
    ELSE raw

\* the rounded discount of one deal on a price (cents)
DealDiscount(total_price, deal) ==
    Round(ClampDiscount(RawDiscount(total_price, deal), deal), 100)

\* the inner loop's body without the resync of fees_breakdown.total
ApplyDealNoResync(result, deal) ==
    IF Truthy(deal.min_order) /\ result.total_price < Val(deal.min_order)
    THEN result
    ELSE LET discount == DealDiscount(result.total_price, deal)
             total == result.total_price - discount
         IN  IF discount > 0
             THEN [result EXCEPT
                     !.total_price = total,
                     !.deals_applied = Append(@, DealLabel(deal)),
                     !.fees_breakdown =
                        IF @ # None
                        THEN Some([Val(@) EXCEPT !.discount = @ + discount])
                        ELSE @]
             ELSE result

\* the inner loop's body with "if discount:" in place of "if discount > 0:"
ApplyDealAnySign(result, deal) ==
    IF Truthy(deal.min_order) /\ result.total_price < Val(deal.min_order)
    THEN result
    ELSE LET discount == DealDiscount(result.total_price, deal)
             total == result.total_price - discount
         IN  IF discount # 0
             THEN [result EXCEPT
                     !.total_price = total,
                     !.deals_applied = Append(@, DealLabel(deal)),
                     !.fees_breakdown =
                        IF @ # None
                        THEN Some([Val(@) EXCEPT !.discount = @ + discount,
                                                 !.total = total])
                        ELSE @]
             ELSE result

\* the inner loop's body without the test "if discount > 0:"
ApplyDealUnguarded(result, deal) ==
    IF Truthy(deal.min_order) /\ result.total_price < Val(deal.min_order)
    THEN result
    ELSE LET discount == DealDiscount(result.total_price, deal)
             total == result.total_price - discount
         IN  [result EXCEPT
                !.total_price = total,
                !.deals_applied = Append(@, DealLabel(deal)),
                !.fees_breakdown =
                   IF @ # None
                   THEN Some([Val(@) EXCEPT !.discount = @ + discount,
                                            !.total = total])
                   ELSE @]

\* the inner loop's body without "fees_breakdown.discount += discount"
ApplyDealDiscountNotBooked(result, deal) ==
    IF Truthy(deal.min_order) /\ result.total_price < Val(deal.min_order)
    THEN result
    ELSE LET discount == DealDiscount(result.total_price, deal)
             total == result.total_price - discount
         IN  IF discount > 0
             THEN [result EXCEPT
                     !.total_price = total,
                     !.deals_applied = Append(@, DealLabel(deal)),
                     !.fees_breakdown =
                        IF @ # None
                        THEN Some([Val(@) EXCEPT !.total = total])
                        ELSE @]
             ELSE result

\* the body of apply_deals' inner loop: one deal of the offer's platform
ApplyDeal(result, deal) ==
    IF Truthy(deal.min_order) /\ result.total_price < Val(deal.min_order)
    THEN result
    ELSE LET discount == DealDiscount(result.total_price, deal)
             total == result.total_price - discount
         IN  IF discount > 0
             THEN [result EXCEPT
                     !.total_price = total,
                     !.deals_applied = Append(@, DealLabel(deal)),
                     !.fees_breakdown =
                        IF @ # None
                        THEN Some([Val(@) EXCEPT !.discount = @ + discount,
                                                 !.total = total])
                        ELSE @]
             ELSE result

RECURSIVE ApplyDealsTo(_, _)
ApplyDealsTo(result, platform_deals) ==
    IF platform_deals = <<>> THEN result
    ELSE ApplyDealsTo(ApplyDeal(result, Head(platform_deals)), Tail(platform_deals))

\* the engine run a second time over the offers it has already discounted
apply_deals_twice(results, deals) ==
    LET once == [i \in 1..Len(results) |->
                    ApplyDealsTo(results[i],
                        SelectSeq(deals, LAMBDA d : d.platform = results[i].platform))]
    IN  [i \in 1..Len(once) |->
            ApplyDealsTo(once[i],
                SelectSeq(deals, LAMBDA d : d.platform = once[i].platform))]

\* DealFinderAgent.apply_deals
apply_deals(results, deals) ==
    [i \in 1..Len(results) |->
        ApplyDealsTo(results[i],
            SelectSeq(deals, LAMBDA d : d.platform = results[i].platform))]

-----------------------------------------------------------------------------
(* config.py: default ranking weights, in hundred-thousandths *)

WEIGHT_PRICE == 40000
WEIGHT_TIME == 20000
WEIGHT_RATING == 20000
WEIGHT_FEES == 10000
WEIGHT_USER_PREF == 10000

WeightKeys == {"price", "time", "rating", "fees", "user_pref"}

-----------------------------------------------------------------------------
(* ranking.py *)

RECURSIVE GCD(_, _)
GCD(a, b) == IF b = 0 THEN a ELSE GCD(b, a % b)

\* a fraction num/den in lowest terms, den > 0
Frac(num, den) == LET g == GCD(num, den) IN <<num \div g, den \div g>>

\* 1 - (value - min) / (max - min), 0 on an empty range
normalise_min_is_best_zero(value, min_val, max_val) ==
    IF max_val = min_val THEN <<0, 1>>
    ELSE Frac(max_val - value, max_val - min_val)

\* _normalise_min_is_best: 1 - (value - min) / (max - min), 1 on an empty range
normalise_min_is_best(value, min_val, max_val) ==
    IF max_val = min_val THEN <<1, 1>>
    ELSE Frac(max_val - value, max_val - min_val)

\* value / (max - min): the value not taken relative to the minimum
normalise_max_unshifted(value, min_val, max_val) ==
    IF max_val = min_val THEN <<1, 1>>
    ELSE Frac(value, max_val - min_val)

\* _normalise_max_is_best: (value - min) / (max - min), 1 on an empty range
normalise_max_is_best(value, min_val, max_val) ==
    IF max_val = min_val THEN <<1, 1>>
    ELSE Frac(value - min_val, max_val - min_val)

\* custom weights that replace the defaults as a whole: a key they leave out
\* weighs 0
WeightOfReplacingAll(custom_weights, key, default) ==
    IF custom_weights = None THEN Some(default)
    ELSE IF key \in DOMAIN Val(custom_weights) THEN Val(custom_weights)[key]
    ELSE Some(0)

\* (custom_weights or {}).get(key, default); a weight is an optional number
WeightOf(custom_weights, key, default) ==
    IF custom_weights # None /\ key \in DOMAIN Val(custom_weights)
    THEN Val(custom_weights)[key]
    ELSE Some(default)

\* rank_results multiplies every weight with a float: a weight that is no
\* number raises TypeError, unless the list is empty (early return)
rank_results_raises(results, custom_weights) ==
    /\ results # <<>>
    /\ custom_weights # None
    /\ \E k \in DOMAIN Val(custom_weights) : Val(custom_weights)[k] = None

\* delivery_fee + service_fee of an offer, 0 without a breakdown
FeeOf(r) ==
    IF r.fees_breakdown # None
    THEN Val(r.fees_breakdown).delivery_fee + Val(r.fees_breakdown).service_fee
    ELSE 0

\* the values of an optional field that are present, in list order
Present(results, field) ==
    LET have == SelectSeq(results, LAMBDA r : r[field] # None)
    IN  [i \in 1..Len(have) |-> Val(have[i][field])]

\* the offer's delivery time, 0 if it has none
t_of_best(r, time_max) ==
    IF r.delivery_time_min # None THEN Val(r.delivery_time_min) ELSE 0

\* t: the offer's delivery time, the largest observed one if it has none
t_of(r, time_max) ==
    IF r.delivery_time_min # None THEN Val(r.delivery_time_min) ELSE time_max

\* rt: the offer's rating, the smallest observed one if it has none
rt_of(r, rating_min) ==
    IF r.rating # None THEN Val(r.rating) ELSE rating_min

\* s_price, s_time, s_rating and s_fees of results[idx], as fractions
DimensionScores(results, idx) ==
    LET r == results[idx]
        prices == [i \in 1..Len(results) |-> results[i].total_price]
        times == Present(results, "delivery_time_min")
        ratings == Present(results, "rating")
        fees == [i \in 1..Len(results) |-> FeeOf(results[i])]
        time_min == IF times # <<>> THEN SeqMin(times) ELSE 0
        time_max == IF times # <<>> THEN SeqMax(times) ELSE 1
        rating_min == IF ratings # <<>> THEN SeqMin(ratings) ELSE 0
        rating_max == IF ratings # <<>> THEN SeqMax(ratings) ELSE 50
    IN  [s_price |-> normalise_min_is_best(r.total_price,
                                           SeqMin(prices), SeqMax(prices)),
         s_time |-> normalise_min_is_best(t_of(r, time_max), time_min, time_max),
         s_rating |-> normalise_max_is_best(rt_of(r, rating_min),
                                            rating_min, rating_max),
         s_fees |-> normalise_min_is_best(fees[idx], SeqMin(fees), SeqMax(fees))]

\* value_score of results[idx], in ten-thousandths
ValueScore(results, idx, custom_weights) ==
    LET w_price == Val(WeightOf(custom_weights, "price", WEIGHT_PRICE))
        w_time == Val(WeightOf(custom_weights, "time", WEIGHT_TIME))
        w_rating == Val(WeightOf(custom_weights, "rating", WEIGHT_RATING))
        w_fees == Val(WeightOf(custom_weights, "fees", WEIGHT_FEES))
        w_pref == Val(WeightOf(custom_weights, "user_pref", WEIGHT_USER_PREF))
        s == DimensionScores(results, idx)
        s_price == s.s_price
        s_time == s.s_time
        s_rating == s.s_rating
        s_fees == s.s_fees
        \* s_pref is the constant 0.5
        den == 2 * s_price[2] * s_time[2] * s_rating[2] * s_fees[2]
        \* the unrounded score is num / den hundred-thousandths
        num == w_price * s_price[1] * (den \div s_price[2])
               + w_time * s_time[1] * (den \div s_time[2])
               + w_rating * s_rating[1] * (den \div s_rating[2])
               + w_fees * s_fees[1] * (den \div s_fees[2])
               + w_pref * (den \div 2)
    IN  Round(num, 10 * den)

\* the savings taken against the first offer of the list
ScoredAgainstFirst(results, custom_weights) ==
    [i \in 1..Len(results) |->
        [results[i] EXCEPT
            !.value_score = Some(ValueScore(results, i, custom_weights)),
            !.savings_vs_max =
                Some(results[1].total_price - results[i].total_price)]]

\* a scoring loop that also sets the offer's price to the highest one
ScoredRepriced(results, custom_weights) ==
    LET max_price == SeqMax([i \in 1..Len(results) |-> results[i].total_price])
    IN  [i \in 1..Len(results) |->
            [results[i] EXCEPT
                !.value_score = Some(ValueScore(results, i, custom_weights)),
                !.savings_vs_max = Some(max_price - results[i].total_price),
                !.total_price = max_price]]

\* value_score and savings_vs_max set on every offer, order unchanged
Scored(results, custom_weights) ==
    LET max_price == SeqMax([i \in 1..Len(results) |-> results[i].total_price])
    IN  [i \in 1..Len(results) |->
            [results[i] EXCEPT
                !.value_score = Some(ValueScore(results, i, custom_weights)),
                !.savings_vs_max = Some(max_price - results[i].total_price)]]

\* the sort key of rank_results: r.value_score or 0
SortKey(r) == IF r.value_score # None THEN Val(r.value_score) ELSE 0

\* x put before every element whose key is at most its own
RECURSIVE InsertDescBeforeTies(_, _)
InsertDescBeforeTies(x, sorted) ==
    IF sorted = <<>> THEN <<x>>
    ELSE IF SortKey(Head(sorted)) > SortKey(x)
         THEN <<Head(sorted)>> \o InsertDescBeforeTies(x, Tail(sorted))
         ELSE <<x>> \o sorted

\* x put behind every element whose key is at least its own
RECURSIVE InsertDesc(_, _)
InsertDesc(x, sorted) ==
    IF sorted = <<>> THEN <<x>>
    ELSE IF SortKey(Head(sorted)) >= SortKey(x)
         THEN <<Head(sorted)>> \o InsertDesc(x, Tail(sorted))
         ELSE <<x>> \o sorted

\* the list left in the order it has
KeepOrder(s) == s

\* list.sort(key=..., reverse=True): descending and stable
RECURSIVE SortDesc(_)
SortDesc(s) ==
    IF s = <<>> THEN <<>>
    ELSE InsertDesc(s[Len(s)], SortDesc(SubSeq(s, 1, Len(s) - 1)))

\* rank_results, when it does not raise
rank_results(results, custom_weights) ==
    IF results = <<>> THEN results
    ELSE LET sorted == SortDesc(Scored(results, custom_weights))
         IN  [i \in 1..Len(sorted) |-> [sorted[i] EXCEPT !.rank = Some(i)]]

-----------------------------------------------------------------------------
(* Dictionaries are functions on their keys *)

EmptyDict == [k \in {} |-> None]

\* {**a, **b}: the keys of both, b's value on a collision
Merge(a, b) ==
    [k \in DOMAIN a \cup DOMAIN b |-> IF k \in DOMAIN b THEN b[k] ELSE a[k]]

\* d with d[key] = value
Put(d, key, value) ==
    [k \in DOMAIN d \cup {key} |-> IF k = key THEN value ELSE d[k]]

-----------------------------------------------------------------------------
(* nlp_parser.py *)

\* A query, by what the parser reads in it: per category the number of its
\* keywords that occur, and the budget the first budget pattern extracts.
Queries ==
    { [kw |-> <<1, 0, 0, 0>>, budget |-> None],
      [kw |-> <<0, 0, 0, 0>>, budget |-> Some(1250)],
      [kw |-> <<0, 0, 1, 1>>, budget |-> None],
      [kw |-> <<1, 0, 0, 2>>, budget |-> None] }

\* a max that keeps the last index with the highest score
RECURSIVE ArgMaxLast(_, _, _)
ArgMaxLast(scores, i, best) ==
    IF i > Len(scores) THEN best
    ELSE ArgMaxLast(scores, i + 1, IF scores[i] >= scores[best] THEN i ELSE best)

\* max(scores, key=scores.get): the first index with the highest score
RECURSIVE ArgMaxFrom(_, _, _)
ArgMaxFrom(scores, i, best) ==
    IF i > Len(scores) THEN best
    ELSE ArgMaxFrom(scores, i + 1, IF scores[i] > scores[best] THEN i ELSE best)

\* _detect_category
detect_category(kw) ==
    LET best == ArgMaxFrom(kw, 1, 1)
    IN  IF kw[best] = 0 THEN "product" ELSE CategoryOrder[best]

\* parse_user_query: the ParsedIntent (category and filters)
parse_user_query(query) ==
    [category |-> Some(detect_category(query.kw)),
     filters |-> IF Truthy(query.budget)
                 THEN Put(EmptyDict, "budget_max", Val(query.budget))
                 ELSE EmptyDict,
     location |-> None,
     budget |-> query.budget]

-----------------------------------------------------------------------------
(* user_profile_agent.py *)

\* what get_preferences returns for a user without a stored profile
DefaultPreferences == Put(EmptyDict, "ranking_weights", None)

\* user_id values a caller passes: nothing, a string, or (through
\* AgentMessage.context, a dict[str, Any]) a value that cannot be a dict key
UserIds ==
    {None} \cup {Some([kind |-> "str", name |-> u]) : u \in Users}
           \cup {Some([kind |-> "list", name |-> u]) : u \in Users}

\* _PROFILES.get(user_id, ...) raises TypeError on an unhashable key
get_preferences_raises(user_id) == Val(user_id).kind # "str"

\* get_preferences: the stored dict itself (not a copy), else a fresh default
get_preferences(user_id) ==
    IF Val(user_id).name \in DOMAIN profiles
    THEN [ref |-> Some(Val(user_id).name), value |-> EmptyDict]
    ELSE [ref |-> None, value |-> DefaultPreferences]

\* the dict a user_preferences reference stands for now
Deref(prefs) == IF prefs.ref # None THEN profiles[Val(prefs.ref)] ELSE prefs.value

\* ranking_weights a caller may store: one override, or a weight that is null
RankingWeightChoices ==
    { Some(Put(EmptyDict, "price", Some(100000))),
      Some(Put(EmptyDict, "rating", None)) }

-----------------------------------------------------------------------------
(* state.py, orchestrator.py: one execute_search request *)

\* platform allow-lists a caller may send
PlatformChoices ==
    {None, Some({"uber_eats", "grubhub", "amazon", "uber", "lyft", "booking"})}

Requests ==
    [query : Queries, user_id : UserIds, category : {None},
     filters : {EmptyDict}, location : {None},
     budget_max : BudgetChoices, platforms : PlatformChoices]

NoState == [status |-> "none"]
NoResponse == [kind |-> "none"]

\* create_initial_state
create_initial_state(req) ==
    [query |-> req.query, user_id |-> req.user_id,
     intent |-> None, category |-> None,
     filters |-> req.filters, location |-> req.location,
     budget_max |-> req.budget_max, platforms |-> req.platforms,
     user_preferences |-> [ref |-> None, value |-> EmptyDict],
     results |-> <<>>, deals |-> <<>>, ranked_results |-> <<>>,
     status |-> PENDING, errors |-> <<>>]

\* _build_graph with the deal lookup wired before the search
EdgeDealsFirst(node) ==
    CASE node = "parse_intent" -> "get_preferences"
      [] node = "get_preferences" -> "find_deals"
      [] node = "find_deals" -> "search"
      [] node = "search" -> "apply_deals_and_rank"
      [] node = "apply_deals_and_rank" -> "END"

\* the edges of _build_graph
Edge(node) ==
    CASE node = "parse_intent" -> "get_preferences"
      [] node = "get_preferences" -> "search"
      [] node = "search" -> "find_deals"
      [] node = "find_deals" -> "apply_deals_and_rank"
      [] node = "apply_deals_and_rank" -> "END"

Init ==
    /\ pc = "idle"
    /\ request = [kind |-> "none"]
    /\ state = NoState
    /\ merged_filters = EmptyDict
    /\ tasks = EmptyDict
    /\ response = NoResponse
    /\ profiles = EmptyDict
    /\ started = <<>>
    /\ finished = <<>>

\* a node that runs without a suspension point in it
RunNode(node) ==
    /\ started' = Append(started, node)
    /\ finished' = Append(finished, node)
    /\ pc' = Edge(node)

\* an except branch that answers with what the state held when the node raised
GraphFailedLeaky(node) ==
    /\ started' = Append(started, node)
    /\ finished' = finished
    /\ pc' = "done"
    /\ response' = [kind |-> "returned",
                    category |-> IF request.category # None
                                 THEN Val(request.category) ELSE "product",
                    status |-> state.status,
                    result_count |-> Len(state.results),
                    results |-> state.results,
                    deals_found |-> <<>>]

\* execute_search's except branch: a node raised, ainvoke re-raises
GraphFailed(node) ==
    /\ started' = Append(started, node)
    /\ finished' = finished
    /\ pc' = "done"
    /\ response' = [kind |-> "returned",
                    category |-> IF request.category # None
                                 THEN Val(request.category) ELSE "product",
                    status |-> FAILED, result_count |-> 0, results |-> <<>>,
                    deals_found |-> <<>>]

\* execute_search up to the call of graph.ainvoke
ExecuteSearch ==
    /\ pc = "idle"
    /\ \E req \in Requests :
        /\ request' = req
        /\ state' = create_initial_state(req)
    /\ pc' = "parse_intent"
    /\ UNCHANGED <<merged_filters, tasks, response, profiles, started, finished>>

\* parse_intent_node with the intent the parser returned
parse_intent_node(intent) ==
    /\ pc = "parse_intent"
    /\ state' = [state EXCEPT !.intent = Some(intent),
                              !.category = intent.category,
                              !.status = PROCESSING]
    /\ RunNode("parse_intent")
    /\ UNCHANGED <<request, merged_filters, tasks, response, profiles>>

ParseIntent == parse_intent_node(parse_user_query(state.query))

\* get_user_preferences_node
GetPreferences ==
    /\ pc = "get_preferences"
    /\ IF state.user_id # None /\ get_preferences_raises(state.user_id)
       THEN /\ GraphFailed("get_preferences")
            /\ UNCHANGED state
       ELSE /\ state' = [state EXCEPT !.user_preferences =
                            IF state.user_id # None
                            THEN get_preferences(state.user_id)
                            ELSE [ref |-> None, value |-> EmptyDict]]
            /\ RunNode("get_preferences")
            /\ UNCHANGED response
    /\ UNCHANGED <<request, merged_filters, tasks, profiles>>

\* search_node's merged filters: the intent's, then the caller's on top
MergedFilters(st) ==
    LET intent == Val(st.intent)
        m0 == Merge(intent.filters, st.filters)
        m1 == IF Truthy(st.budget_max)
              THEN Put(m0, "budget_max", Val(st.budget_max)) ELSE m0
        m2 == IF st.location # None \/ intent.location # None
              THEN Put(m1, "location",
                       IF st.location # None THEN Val(st.location)
                       ELSE Val(intent.location))
              ELSE m1
    IN  IF st.platforms # None /\ Val(st.platforms) # {}
        THEN Put(m2, "platforms", Val(st.platforms)) ELSE m2

\* the searchers an agent's search() spawns, in PLATFORM_SEARCHERS order
Searchers(category, filters) ==
    SelectSeq(PLATFORM_SEARCHERS(category),
              LAMBDA p : "platforms" \notin DOMAIN filters
                         \/ p \in filters["platforms"])

\* the base price (cents) a platform quotes for its i-th item
QuotedPrice(platform, i) ==
    LET order == PLATFORM_SEARCHERS(PLATFORM_CATEGORY(platform))
        k == CHOOSE j \in 1..Len(order) : order[j] = platform
    IN  IF (k + i) % 2 = 0 THEN 3000 ELSE 1000

\* what one platform searcher may return: a list of 0..MaxOffersPerAdapter items
AdapterOutputs(platform) ==
    { [i \in 1..n |-> RawOffer(platform, i, QuotedPrice(platform, i))] :
        n \in 0..MaxOffersPerAdapter }

Pending == [st |-> "pending", out |-> <<>>]

\* search_node up to the await of asyncio.gather in the agent's search()
SearchNode ==
    /\ pc = "search"
    /\ started' = Append(started, "search")
    /\ IF state.category = None \/ state.intent = None
       THEN /\ state' = [state EXCEPT !.errors = Append(@, "Failed to parse intent")]
            /\ finished' = Append(finished, "search")
            /\ pc' = Edge("search")
            /\ UNCHANGED <<merged_filters, tasks>>
       ELSE IF Val(state.category) \notin category_agent_map
       THEN /\ state' = [state EXCEPT !.errors = Append(@, "Unknown category")]
            /\ finished' = Append(finished, "search")
            /\ pc' = Edge("search")
            /\ UNCHANGED <<merged_filters, tasks>>
       ELSE /\ merged_filters' = MergedFilters(state)
            /\ tasks' = [p \in Range(Searchers(Val(state.category), merged_filters'))
                            |-> Pending]
            /\ pc' = "gather"
            /\ UNCHANGED <<state, finished>>
    /\ UNCHANGED <<request, response, profiles>>

\* a spawned platform searcher returns its list
AdapterReturns ==
    /\ pc = "gather"
    /\ \E p \in DOMAIN tasks :
        /\ tasks[p].st = "pending"
        /\ \E out \in AdapterOutputs(p) :
            tasks' = [tasks EXCEPT ![p] = [st |-> "returned", out |-> out]]
    /\ UNCHANGED <<pc, request, state, merged_filters, response, profiles,
                   started, finished>>

\* a spawned platform searcher raises
AdapterRaises ==
    /\ pc = "gather"
    /\ \E p \in DOMAIN tasks :
        /\ tasks[p].st = "pending"
        /\ tasks' = [tasks EXCEPT ![p] = [st |-> "raised", out |-> <<>>]]
    /\ UNCHANGED <<pc, request, state, merged_filters, response, profiles,
                   started, finished>>

\* a wait that resumes its caller as soon as one task is done
GatherFirstDone(t) == DOMAIN t = {} \/ \E p \in DOMAIN t : t[p].st # "pending"

\* asyncio.gather(*tasks, return_exceptions=True) resumes its caller once
\* every task has returned or raised
GatherDone(t) == \A p \in DOMAIN t : t[p].st # "pending"

\* a wait that hands the outcomes back as the tasks finished (as_completed);
\* at is the position of a task's completion among the completions
GatherResultsAsCompleted(order, t) ==
    [i \in 1..Len(order) |-> t[CHOOSE p \in DOMAIN t : t[p].at = i]]

\* what asyncio.gather hands back: the outcomes in the order of the awaitables
\* it was given, the order search() spawned the tasks in
GatherResults(order, t) == [i \in 1..Len(order) |-> t[order[i]]]

\* the raw dicts of the responses that are lists, in response order
RECURSIVE CollectRaw(_)
CollectRaw(responses) ==
    IF responses = <<>> THEN <<>>
    ELSE (IF Head(responses).st = "returned" THEN Head(responses).out ELSE <<>>)
         \o CollectRaw(Tail(responses))

\* ECommerceAgent.search and HotelAgent.search drop offers over budget_max;
\* FoodDeliveryAgent.search and RideSharingAgent.search have no such step
BudgetFilter(category, filters, results) ==
    IF category \in {"product", "hotel"}
       /\ "budget_max" \in DOMAIN filters /\ filters["budget_max"] # 0
    THEN SelectSeq(results, LAMBDA r : r.total_price <= filters["budget_max"])
    ELSE results

\* search() with a gather that lacks return_exceptions=True: the first
\* exception of a task leaves search()
agent_search_fail_fast(category, filters, responses) ==
    LET raw == CollectRaw(responses)
    IN  [raised |-> \E i \in 1..Len(responses) : responses[i].st = "raised",
         results |-> BudgetFilter(category, filters,
                        [i \in 1..Len(raw) |-> normalise(category, raw[i])])]

\* the agent's search() after the gather: responses are in spawn order
agent_search(category, filters, responses) ==
    LET raw == CollectRaw(responses)
    IN  [raised |-> FALSE,
         results |-> BudgetFilter(category, filters,
                        [i \in 1..Len(raw) |-> normalise(category, raw[i])])]

\* the rest of search_node: the try/except around agent.search
SearchJoin ==
    /\ pc = "gather"
    /\ GatherDone(tasks)
    /\ LET category == Val(state.category)
           order == Searchers(category, merged_filters)
           got == agent_search(category, merged_filters,
                               GatherResults(order, tasks))
       IN  state' = IF got.raised
                    THEN [state EXCEPT !.errors = Append(@, "Search failed")]
                    ELSE [state EXCEPT !.results = @ \o got.results]
    /\ finished' = Append(finished, "search")
    /\ pc' = Edge("search")
    /\ UNCHANGED <<request, merged_filters, tasks, response, profiles, started>>

\* find_deals_node when the lookup succeeds (or there is no category)
FindDeals ==
    /\ pc = "find_deals"
    /\ state' = IF state.category = None THEN state
                ELSE [state EXCEPT !.deals = @ \o find_deals(Val(state.category))]
    /\ RunNode("find_deals")
    /\ UNCHANGED <<request, merged_filters, tasks, response, profiles>>

\* find_deals_node without its try/except: the exception leaves the graph
FindDealsFailsUncaught ==
    /\ pc = "find_deals"
    /\ state.category # None
    /\ GraphFailed("find_deals")
    /\ UNCHANGED <<request, state, merged_filters, tasks, profiles>>

\* find_deals_node when deal_agent.find_deals raises: the except branch
FindDealsFails ==
    /\ pc = "find_deals"
    /\ state.category # None
    /\ state' = [state EXCEPT !.errors = Append(@, "Deal search failed")]
    /\ RunNode("find_deals")
    /\ UNCHANGED <<request, merged_filters, tasks, response, profiles>>

\* ranked[:10]
TopN == 10

\* a slice that keeps the last n
TakeLast(s, n) == SubSeq(s, Max(1, Len(s) - n + 1), Len(s))

Take(s, n) == SubSeq(s, 1, Min(n, Len(s)))

\* user_prefs.get("ranking_weights") if user_prefs else None
RankingWeights(user_prefs) ==
    IF "ranking_weights" \in DOMAIN user_prefs
    THEN user_prefs["ranking_weights"] ELSE None

\* apply_deals_and_rank_node without the "status" entry in what it returns
FinalStatusUnset(errors) == PROCESSING

\* the status apply_deals_and_rank_node returns
FinalStatus(errors) == COMPLETED

\* apply_deals_and_rank_node; apply_deals and rank_results work in place, on
\* the list state["results"] holds
ApplyDealsAndRank ==
    /\ pc = "apply_deals_and_rank"
    /\ LET deals == state.deals
           results == IF deals # <<>> THEN apply_deals(state.results, deals)
                      ELSE state.results
           weights == RankingWeights(Deref(state.user_preferences))
       IN  IF rank_results_raises(results, weights)
           THEN /\ GraphFailed("apply_deals_and_rank")
                /\ state' = [state EXCEPT !.results = results]
           ELSE /\ state' = [state EXCEPT
                                !.results = rank_results(results, weights),
                                !.ranked_results =
                                    Take(rank_results(results, weights), TopN),
                                !.status = FinalStatus(state.errors)]
                /\ RunNode("apply_deals_and_rank")
                /\ UNCHANGED response
    /\ UNCHANGED <<request, merged_filters, tasks, profiles>>

\* execute_search after graph.ainvoke returned: the SearchResponse.  Its
\* category field is required, so a final state without one fails validation
\* and the exception reaches the caller.
Respond ==
    /\ pc = "END"
    /\ response' =
        IF state.category = None \/ Val(state.category) \notin SearchCategory
        THEN [kind |-> "raised", category |-> "none", status |-> "none",
              result_count |-> 0, results |-> <<>>, deals_found |-> <<>>]
        ELSE [kind |-> "returned", category |-> Val(state.category),
              status |-> state.status,
              result_count |-> Len(state.ranked_results),
              results |-> state.ranked_results,
              deals_found |-> state.deals]
    /\ pc' = "done"
    /\ UNCHANGED <<request, state, merged_filters, tasks, profiles,
                   started, finished>>

\* UserProfileAgent.update_preferences with a ranking_weights entry
UpdatePreferences ==
    /\ \E u \in Users, w \in RankingWeightChoices :
        LET existing == IF u \in DOMAIN profiles THEN profiles[u] ELSE EmptyDict
        IN  profiles' = Put(profiles, u,
                            Merge(existing, Put(EmptyDict, "ranking_weights", w)))
    /\ UNCHANGED <<pc, request, state, merged_filters, tasks, response,
                   started, finished>>

Next ==
    \/ ExecuteSearch
    \/ ParseIntent
    \/ GetPreferences
    \/ SearchNode
    \/ AdapterReturns
    \/ AdapterRaises
    \/ SearchJoin
    \/ FindDeals
    \/ FindDealsFails
    \/ ApplyDealsAndRank
    \/ Respond
    \/ UpdatePreferences

Spec == Init /\ [][Next]_vars

-----------------------------------------------------------------------------
(* The unroutable request.  parse_user_query always resolves one of the    *)
(* four categories and each has an agent, so under Spec search_node's two  *)
(* guards never fire.  AgentState.category is Optional and search_node     *)
(* looks the agent up with .get(): SpecUnrouted adds the parser results    *)
(* those guards are written for, an intent without a category and one      *)
(* whose category has no agent.                                            *)

UnroutedIntents ==
    { [category |-> c, filters |-> EmptyDict, location |-> None, budget |-> None] :
        c \in {None, Some("grocery")} }

ParseIntentUnrouted ==
    \E intent \in UnroutedIntents : parse_intent_node(intent)

NextUnrouted == Next \/ ParseIntentUnrouted

SpecUnrouted == Init /\ [][NextUnrouted]_vars

-----------------------------------------------------------------------------
(* Vocabulary of the properties *)

Terminal == {COMPLETED, PARTIAL, FAILED}

\* the five stages in the order the specification gives them
StageOrder ==
    <<"parse_intent", "get_preferences", "search", "find_deals",
      "apply_deals_and_rank">>

IsPrefix(s, t) == Len(s) <= Len(t) /\ s = SubSeq(t, 1, Len(s))

\* the status of the request as an observer sees it: the pipeline state's
\* until a response exists, then the response's
RequestStatus ==
    IF response.kind = "returned" THEN response.status ELSE state.status

\* a stage raised out of the graph
GraphRaised == Len(started) > Len(finished) /\ pc = "done"

-----------------------------------------------------------------------------
(* C1: within one execute_search request the status only moves             *)
(* pending -> processing -> one of completed, partial, failed; a terminal  *)
(* status never changes; and a response is never returned with status      *)
(* pending or processing.                                                  *)

C1_StatusStep ==
    /\ \/ RequestStatus' = RequestStatus
       \/ RequestStatus = "none" /\ RequestStatus' = PENDING
       \/ RequestStatus = PENDING /\ RequestStatus' = PROCESSING
       \/ RequestStatus = PROCESSING /\ RequestStatus' \in Terminal
    /\ response'.kind = "returned" => response'.status \in Terminal

C1_StatusLifecycle == [][C1_StatusStep]_vars

\* a request that came back completed, and one that came back failed while
\* its pipeline state was still processing
C1_Witness ==
    /\ pc = "done"
    /\ response.kind = "returned"
    /\ response.status = COMPLETED
    /\ state.status = COMPLETED
    /\ response.results # <<>>

-----------------------------------------------------------------------------
(* C2: the five stages run at most once each, in the order parse ->        *)
(* preferences -> search -> deals -> apply-and-rank; a stage starts only   *)
(* when the one before it has finished; apply-and-rank starts only after   *)
(* the search and the deal lookup have both finished.                      *)

C2_StageOrder ==
    /\ IsPrefix(started, StageOrder)
    /\ IsPrefix(finished, started)
    /\ Len(started) - Len(finished) <= 1
    /\ "apply_deals_and_rank" \in Range(started)
          => {"search", "find_deals"} \subseteq Range(finished)
    /\ pc \in Range(StageOrder) =>
          /\ pc \notin Range(started)
          /\ finished = started
          /\ IsPrefix(Append(started, pc), StageOrder)

C2_Witness ==
    /\ pc = "done"
    /\ finished = StageOrder
    /\ response.results # <<>>

-----------------------------------------------------------------------------
(* The search stage, as the properties see it *)

\* the search stage ran its adapters and is over, and the offers are still as
\* the stage left them (apply-and-rank works on them in place)
SearchOver ==
    /\ pc \in {"find_deals", "apply_deals_and_rank"}
    /\ "search" \in Range(finished)

FailedAdapters == {p \in DOMAIN tasks : tasks[p].st = "raised"}
ReturnedAdapters == {p \in DOMAIN tasks : tasks[p].st = "returned"}

\* the category's search() has a budget step and the merged filters a budget
HasBudgetStep ==
    /\ Val(state.category) \in {"product", "hotel"}
    /\ "budget_max" \in DOMAIN merged_filters

\* the offers adapter p handed back that the budget step (where the
\* category's search() has one) lets through, normalised, in p's order
Contribution(p) ==
    LET offers == [i \in 1..Len(tasks[p].out) |->
                      normalise(Val(state.category), tasks[p].out[i])]
    IN  IF HasBudgetStep
        THEN SelectSeq(offers, LAMBDA r : r.total_price <= merged_filters["budget_max"])
        ELSE offers

\* the number of offers the adapters of S contributed
RECURSIVE ContributionCount(_)
ContributionCount(S) ==
    IF S = {} THEN 0
    ELSE LET p == CHOOSE q \in S : TRUE
         IN  Len(Contribution(p)) + ContributionCount(S \ {p})

-----------------------------------------------------------------------------
(* C3: in the search stage an adapter that raises contributes zero offers  *)
(* and aborts neither its siblings nor the pipeline: whatever subset of    *)
(* the selected adapters raises, the stage's offer list holds every offer  *)
(* of every adapter that returned (those the budget step of the product    *)
(* and hotel searches drops excepted), and nothing of an adapter that      *)
(* raised.                                                                 *)

C3_FailureIsolated ==
    SearchOver =>
        /\ \A p \in ReturnedAdapters :
               SelectSeq(state.results, LAMBDA r : r.platform = p) = Contribution(p)
        /\ \A p \in FailedAdapters :
               SelectSeq(state.results, LAMBDA r : r.platform = p) = <<>>
        /\ "Search failed" \notin Range(state.errors)
        /\ response = NoResponse

C3_Witness ==
    /\ SearchOver
    /\ Cardinality(FailedAdapters) >= 2
    /\ \E p \in ReturnedAdapters : Contribution(p) # <<>>
    /\ \E p \in ReturnedAdapters :
           /\ Contribution(p) # <<>>
           /\ SelectSeq(state.results, LAMBDA r : r.platform = p) = Contribution(p)

-----------------------------------------------------------------------------
(* C4: when some selected adapters fail and the others return offers, the  *)
(* run ends completed or partial, result_count is the number of offers of  *)
(* the successful adapters, and exactly one error message is recorded per  *)
(* failed adapter.                                                         *)

\* the error messages other than the deal lookup's
SearchErrors == SelectSeq(state.errors, LAMBDA e : e # "Deal search failed")

C4_ErrorPerFailedAdapter ==
    ( /\ pc = "done"
      /\ finished = StageOrder
      /\ FailedAdapters # {}
      /\ \E p \in ReturnedAdapters : tasks[p].out # <<>> )
    => /\ response.status \in {COMPLETED, PARTIAL}
       /\ response.result_count
             = Min(TopN, ContributionCount(ReturnedAdapters))
       /\ Len(SearchErrors) = Cardinality(FailedAdapters)

-----------------------------------------------------------------------------
(* C5: an uncaught failure that escapes a stage makes execute_search       *)
(* return a well-formed response with status failed, an empty result list  *)
(* and result_count 0; execute_search never raises to its caller,          *)
(* whichever stage raised.                                                 *)

C5_FailureResponse ==
    /\ pc = "done" => response.kind = "returned"
    /\ GraphRaised =>
          /\ response.kind = "returned"
          /\ response.status = FAILED
          /\ response.results = <<>>
          /\ response.result_count = 0
          /\ response.category \in SearchCategory

\* the ranking raised on a null weight after the search had found offers
C5_Witness ==
    /\ GraphRaised
    /\ started[Len(started)] = "apply_deals_and_rank"
    /\ state.results # <<>>
    /\ response.status = FAILED

-----------------------------------------------------------------------------
(* C6: if the resolved category is empty or has no registered adapter, the *)
(* request ends with status failed, an empty result list and an explicit   *)
(* error message, and the deal lookup and apply-and-rank are skipped.      *)

Unroutable ==
    /\ "parse_intent" \in Range(finished)
    /\ \/ state.category = None
       \/ Val(state.category) \notin category_agent_map

-----------------------------------------------------------------------------
(* C7: when the search stage yields zero offers the pipeline still         *)
(* completes with an empty result list, and the final status is partial    *)
(* if any stage recorded an error and completed if none did.               *)

C7_EmptyStatus ==
    (pc = "done" /\ "search" \in Range(finished) /\ state.results = <<>>) =>
        /\ finished = StageOrder
        /\ response.kind = "returned"
        /\ response.results = <<>>
        /\ response.result_count = 0
        /\ response.status = IF state.errors # <<>> THEN PARTIAL ELSE COMPLETED

-----------------------------------------------------------------------------
(* C8: a failure of the preference lookup is non-fatal: the preferences    *)
(* default to an empty mapping, the pipeline goes on through search, deals *)
(* and ranking, and the request does not end failed because of it.         *)

PreferenceLookupFails ==
    /\ pc # "idle"
    /\ state.user_id # None
    /\ get_preferences_raises(state.user_id)

C8_PreferenceFailureNonFatal ==
    (pc = "done" /\ PreferenceLookupFails) =>
        /\ finished = StageOrder
        /\ Deref(state.user_preferences) = EmptyDict
        /\ response.kind = "returned"
        /\ response.status # FAILED

-----------------------------------------------------------------------------
(* C9: a failure of the deal lookup is non-fatal: it is recorded as one    *)
(* error message and contributes no deals, no exception leaves the deal    *)
(* stage, and the pipeline still ranks and returns the searched offers     *)
(* with their undiscounted prices.                                         *)

DealLookupFailed == pc # "idle" /\ "Deal search failed" \in Range(state.errors)

\* the offer is as its adapter's search() handed it over: no deal on it
Undiscounted(r) ==
    /\ r.deals_applied = <<>>
    /\ Val(r.fees_breakdown).discount = 0
    /\ r.total_price = Val(r.fees_breakdown).total
    /\ \E p \in ReturnedAdapters : \E j \in 1..Len(Contribution(p)) :
          /\ Contribution(p)[j].platform = r.platform
          /\ Contribution(p)[j].item_name = r.item_name
          /\ Contribution(p)[j].total_price = r.total_price

C9_DealFailureNonFatal ==
    /\ Len(started) > Len(finished) => started[Len(started)] # "find_deals"
    /\ DealLookupFailed =>
          /\ state.deals = <<>>
          /\ Len(SelectSeq(state.errors, LAMBDA e : e = "Deal search failed")) = 1
          /\ "find_deals" \in Range(finished)
    /\ (pc = "done" /\ DealLookupFailed /\ ~GraphRaised) =>
          /\ response.kind = "returned"
          /\ response.status \in {COMPLETED, PARTIAL}
          /\ response.deals_found = <<>>
          /\ response.result_count
                = Min(TopN, ContributionCount(ReturnedAdapters))
          /\ Len(response.results) = response.result_count
          /\ \A i \in 1..Len(response.results) :
                /\ Undiscounted(response.results[i])
                /\ response.results[i].rank = Some(i)
                /\ response.results[i].value_score # None

\* the lookup failed for a request whose offers include one of a platform
\* that has a sample deal
C9_Witness ==
    /\ pc = "done"
    /\ DealLookupFailed
    /\ response.kind = "returned"
    /\ response.status = COMPLETED
    /\ \E i \in 1..Len(response.results) :
          /\ response.results[i].platform = "uber_eats"
          /\ response.results[i].total_price = 3400

-----------------------------------------------------------------------------
(* C10: the search stage does not advance to the deal stage until every    *)
(* spawned adapter task has returned or failed; no later stage sees an     *)
(* offer list that lacks the contribution of an adapter still running.     *)

C10_JoinWaitsForAll ==
    /\ "search" \in Range(finished) =>
          \A p \in DOMAIN tasks : tasks[p].st \in {"returned", "raised"}
    /\ (\E p \in DOMAIN tasks : tasks[p].st = "pending") =>
          /\ pc = "gather"
          /\ "find_deals" \notin Range(started)
          /\ state.results = <<>>
    /\ SearchOver => Len(state.results) = ContributionCount(ReturnedAdapters)

C10_Witness ==
    /\ SearchOver
    /\ Cardinality(DOMAIN tasks) >= 4
    /\ Cardinality({p \in ReturnedAdapters : tasks[p].out # <<>>}) >= 2
    /\ FailedAdapters # {}
    /\ Len(state.results) >= 2

-----------------------------------------------------------------------------
(* The order of completions.  SpecOrder runs the pipeline for requests     *)
(* whose agent spawns three or four searchers and keeps, with each         *)
(* searcher's outcome, its position among the completions.                 *)

OrderRequests ==
    {req \in Requests : /\ req.query.kw \in {<<1, 0, 0, 0>>, <<0, 0, 1, 1>>}
                        /\ req.user_id = None
                        /\ req.budget_max = None
                        /\ req.platforms = None}

InitOrder ==
    /\ pc = "parse_intent"
    /\ request \in OrderRequests
    /\ state = create_initial_state(request)
    /\ merged_filters = EmptyDict
    /\ tasks = EmptyDict
    /\ response = NoResponse
    /\ profiles = EmptyDict
    /\ started = <<>>
    /\ finished = <<>>

\* the number of tasks that are done
Completions == Cardinality({p \in DOMAIN tasks : tasks[p].st # "pending"})

\* a spawned platform searcher returns its list, as the next to complete
AdapterReturnsInTurn ==
    /\ pc = "gather"
    /\ \E p \in DOMAIN tasks :
        /\ tasks[p].st = "pending"
        /\ \E out \in AdapterOutputs(p) :
            tasks' = [tasks EXCEPT ![p] = [st |-> "returned", out |-> out,
                                           at |-> Completions + 1]]
    /\ UNCHANGED <<pc, request, state, merged_filters, response, profiles,
                   started, finished>>

\* a spawned platform searcher raises, as the next to complete
AdapterRaisesInTurn ==
    /\ pc = "gather"
    /\ \E p \in DOMAIN tasks :
        /\ tasks[p].st = "pending"
        /\ tasks' = [tasks EXCEPT ![p] = [st |-> "raised", out |-> <<>>,
                                          at |-> Completions + 1]]
    /\ UNCHANGED <<pc, request, state, merged_filters, response, profiles,
                   started, finished>>

NextOrder ==
    \/ ParseIntent
    \/ GetPreferences
    \/ SearchNode
    \/ AdapterReturnsInTurn
    \/ AdapterRaisesInTurn
    \/ SearchJoin
    \/ FindDeals
    \/ FindDealsFails
    \/ ApplyDealsAndRank
    \/ Respond

SpecOrder == InitOrder /\ [][NextOrder]_vars

-----------------------------------------------------------------------------
(* C11: the offers are concatenated in the order the adapter tasks were    *)
(* spawned (registration order), whatever the order of their completions:  *)
(* the list entering the ranking is each returning adapter's offers, one   *)
(* adapter after the other in registration order, and in the response      *)
(* offers of equal score keep that order.                                  *)

\* the position of a platform in its agent's registration order
SpawnIndex(platform) ==
    LET order == PLATFORM_SEARCHERS(PLATFORM_CATEGORY(platform))
    IN  CHOOSE k \in 1..Len(order) : order[k] = platform

\* offer a is not behind offer b in spawn order (item_name is the position of
\* the item in its adapter's list)
InSpawnOrder(a, b) ==
    \/ SpawnIndex(a.platform) < SpawnIndex(b.platform)
    \/ a.platform = b.platform /\ a.item_name <= b.item_name

\* some completion order differs from the spawn order
CompletedOutOfOrder ==
    \E p, q \in DOMAIN tasks :
        /\ tasks[p].st # "pending" /\ tasks[q].st # "pending"
        /\ SpawnIndex(p) < SpawnIndex(q)
        /\ tasks[p].at > tasks[q].at

C11_SpawnOrder ==
    /\ SearchOver =>
          /\ \A i, j \in 1..Len(state.results) :
                i < j => InSpawnOrder(state.results[i], state.results[j])
          /\ \A p \in DOMAIN tasks :
                SelectSeq(state.results, LAMBDA r : r.platform = p) = Contribution(p)
    /\ (pc = "done" /\ ~GraphRaised) =>
          \A i, j \in 1..Len(response.results) :
              (i < j /\ response.results[i].value_score
                            = response.results[j].value_score)
                  => InSpawnOrder(response.results[i], response.results[j])

\* the last adapter in registration order completed first, and two offers of
\* the response have the same score
C11_Witness ==
    /\ pc = "done"
    /\ ~GraphRaised
    /\ CompletedOutOfOrder
    /\ \E p \in ReturnedAdapters :
          tasks[p].at = 1 /\ SpawnIndex(p) = Cardinality(DOMAIN tasks)
    /\ \E i, j \in 1..Len(response.results) :
          /\ i < j
          /\ response.results[i].value_score = response.results[j].value_score

-----------------------------------------------------------------------------
(* C12: whenever the merged filters hold a budget_max, every offer that    *)
(* leaves the search stage has total_price <= budget_max, in every         *)
(* category (food, product, ride, hotel).                                  *)

C12_WithinBudget ==
    (SearchOver /\ "budget_max" \in DOMAIN merged_filters) =>
        \A i \in 1..Len(state.results) :
            state.results[i].total_price <= merged_filters["budget_max"]

-----------------------------------------------------------------------------
(* The allow-list.  SpecAllow runs the pipeline for anonymous requests     *)
(* with each kind of platforms value a caller may send: none, an empty     *)
(* list, a list across the categories, a list of one platform.             *)

AllowLists ==
    {None, Some({}), Some({"amazon"}),
     Some({"uber_eats", "grubhub", "amazon", "uber", "lyft", "booking"})}

AllowRequests ==
    [query : Queries, user_id : {None}, category : {None},
     filters : {EmptyDict}, location : {None},
     budget_max : {None}, platforms : AllowLists]

InitAllow ==
    /\ pc = "parse_intent"
    /\ request \in AllowRequests
    /\ state = create_initial_state(request)
    /\ merged_filters = EmptyDict
    /\ tasks = EmptyDict
    /\ response = NoResponse
    /\ profiles = EmptyDict
    /\ started = <<>>
    /\ finished = <<>>

NextAllow ==
    \/ ParseIntent
    \/ GetPreferences
    \/ SearchNode
    \/ AdapterReturns
    \/ AdapterRaises
    \/ SearchJoin
    \/ FindDeals
    \/ FindDealsFails
    \/ ApplyDealsAndRank
    \/ Respond

SpecAllow == InitAllow /\ [][NextAllow]_vars

-----------------------------------------------------------------------------
(* C13: when the caller supplies a platform allow-list, the adapters       *)
(* invoked are exactly those of the resolved category whose platform is in *)
(* the list, and every offer of the response is of a platform in the list; *)
(* without an allow-list every adapter of the category is invoked.         *)

\* the search stage has spawned its adapter tasks
AdaptersInvoked == pc \in {"gather", "find_deals", "apply_deals_and_rank", "END", "done"}

C13_AllowList ==
    /\ AdaptersInvoked =>
          DOMAIN tasks =
              IF request.platforms # None
              THEN Range(PLATFORM_SEARCHERS(Val(state.category)))
                       \cap Val(request.platforms)
              ELSE Range(PLATFORM_SEARCHERS(Val(state.category)))
    /\ (pc = "done" /\ request.platforms # None) =>
          \A i \in 1..Len(response.results) :
              response.results[i].platform \in Val(request.platforms)

-----------------------------------------------------------------------------
(* The filters.  SpecFilters runs the pipeline for product requests on one *)
(* platform, with the filters, budget_max and location a caller may send   *)
(* and the filters and location parse_user_query may extract.              *)

\* SearchRequest.filters
CallerFilters ==
    { EmptyDict,
      Put(EmptyDict, "budget_max", 900),
      Put(EmptyDict, "location", "Boston"),
      Put(Put(EmptyDict, "cuisine", "thai"), "time_constraint", "45 minutes") }

FilterRequests ==
    [query : {[kw |-> <<0, 1, 0, 0>>, budget |-> None]},
     user_id : {None}, category : {None},
     filters : CallerFilters, location : {None, Some("Austin")},
     budget_max : BudgetChoices, platforms : {Some({"amazon"})}]

\* what parse_user_query extracts: budget_max and time_constraint into the
\* filters, the location beside them
FilterIntents ==
    { [category |-> Some("product"), filters |-> f, location |-> l,
       budget |-> IF "budget_max" \in DOMAIN f THEN Some(f["budget_max"]) ELSE None] :
        f \in { EmptyDict,
                Put(EmptyDict, "budget_max", 1250),
                Put(Put(EmptyDict, "budget_max", 1250),
                    "time_constraint", "30 minutes") },
        l \in {None, Some("Miami")} }

InitFilters ==
    /\ pc = "parse_intent"
    /\ request \in FilterRequests
    /\ state = create_initial_state(request)
    /\ merged_filters = EmptyDict
    /\ tasks = EmptyDict
    /\ response = NoResponse
    /\ profiles = EmptyDict
    /\ started = <<>>
    /\ finished = <<>>

ParseIntentFilters ==
    \E intent \in FilterIntents : parse_intent_node(intent)

NextFilters ==
    \/ ParseIntentFilters
    \/ GetPreferences
    \/ SearchNode
    \/ AdapterReturns
    \/ AdapterRaises
    \/ SearchJoin
    \/ FindDeals
    \/ FindDealsFails
    \/ ApplyDealsAndRank
    \/ Respond

SpecFilters == InitFilters /\ [][NextFilters]_vars

-----------------------------------------------------------------------------
(* C14: the merged filters passed to the adapters hold every key of the    *)
(* intent's filters and of the caller's filters, and where a value the     *)
(* caller supplied (in filters, budget_max or location) meets one          *)
(* extracted from the query under the same key, the merged value is the    *)
(* caller's.                                                               *)

\* the values the caller supplied for a key
CallerValues(key) ==
    (IF key \in DOMAIN request.filters THEN {request.filters[key]} ELSE {})
    \cup (IF key = "budget_max" /\ request.budget_max # None
          THEN {Val(request.budget_max)} ELSE {})
    \cup (IF key = "location" /\ request.location # None
          THEN {Val(request.location)} ELSE {})

C14_CallerWins ==
    AdaptersInvoked =>
        /\ DOMAIN Val(state.intent).filters \cup DOMAIN request.filters
               \subseteq DOMAIN merged_filters
        /\ \A key \in DOMAIN merged_filters :
               CallerValues(key) # {} => merged_filters[key] \in CallerValues(key)

-----------------------------------------------------------------------------
(* More than ten candidates.  SpecTop runs the pipeline for a ride request *)
(* whose three searchers list up to MaxListedOffers vehicles each.         *)

\* vehicles one ride searcher lists at most (_search_uber lists four)
MaxListedOffers == 4

TopRequests ==
    {req \in Requests : /\ req.query.kw = <<0, 0, 1, 1>>
                        /\ req.user_id = None
                        /\ req.budget_max = None
                        /\ req.platforms = None}

InitTop ==
    /\ pc = "parse_intent"
    /\ request \in TopRequests
    /\ state = create_initial_state(request)
    /\ merged_filters = EmptyDict
    /\ tasks = EmptyDict
    /\ response = NoResponse
    /\ profiles = EmptyDict
    /\ started = <<>>
    /\ finished = <<>>

\* a spawned ride searcher returns its list of vehicles
AdapterReturnsList ==
    /\ pc = "gather"
    /\ \E p \in DOMAIN tasks, n \in 0..MaxListedOffers :
        /\ tasks[p].st = "pending"
        /\ tasks' = [tasks EXCEPT ![p] =
                        [st |-> "returned",
                         out |-> [i \in 1..n |->
                                     RawOffer(p, i, QuotedPrice(p, i))]]]
    /\ UNCHANGED <<pc, request, state, merged_filters, response, profiles,
                   started, finished>>

NextTop ==
    \/ ParseIntent
    \/ GetPreferences
    \/ SearchNode
    \/ AdapterReturnsList
    \/ AdapterRaises
    \/ SearchJoin
    \/ FindDeals
    \/ FindDealsFails
    \/ ApplyDealsAndRank
    \/ Respond

SpecTop == InitTop /\ [][NextTop]_vars

-----------------------------------------------------------------------------
(* C15: the response of a successful run holds at most 10 offers; they are *)
(* the offers ranked 1..min(N, 10) of the N ranked candidates, in rank     *)
(* order; and result_count is the length of results.                       *)

\* the run went through all five stages and answered
Successful ==
    /\ pc = "done"
    /\ finished = StageOrder
    /\ response.kind = "returned"

\* the candidates: what the search stage handed on
Candidates == ContributionCount(ReturnedAdapters)

C15_TopTen ==
    Successful =>
        /\ Len(response.results) <= 10
        /\ Len(response.results) = Min(Candidates, 10)
        /\ response.result_count = Len(response.results)
        /\ Len(state.results) = Candidates
        /\ \A i \in 1..Len(state.results) : state.results[i].rank = Some(i)
        /\ \A i, j \in 1..Len(state.results) :
               i < j => SortKey(state.results[i]) >= SortKey(state.results[j])
        /\ \A i \in 1..Len(response.results) :
               response.results[i] = state.results[i]

C15_Witness ==
    /\ Successful
    /\ Candidates = 12
    /\ Len(response.results) = 10
    /\ response.results[10].rank = Some(10)
    /\ state.results[12].rank = Some(12)

-----------------------------------------------------------------------------
(* Two requests on one orchestrator.  In SpecPair every variable of the    *)
(* pipeline holds one value per request in flight; profiles is the one     *)
(* module-level _PROFILES dict.  The requests' coroutines interleave at    *)
(* the awaits between and inside the nodes; the searchers of a request     *)
(* complete while its search_node is suspended in the gather.              *)

ReqIds == {1, 2}

\* a pipeline state (graph.ainvoke's own copy of initial_state) on the
\* orchestrator instance, one for all its requests
SlotOnOrchestrator(r) == 1

\* the pipeline state request r runs on: each execute_search call creates its
\* own with create_initial_state and hands it to graph.ainvoke
Slot(r) == r

\* a food or a ride request of a signed-in user, allowed one food platform
\* and two ride platforms
PairRequests ==
    [query : {q \in Queries : q.kw \in {<<1, 0, 0, 0>>, <<0, 0, 1, 1>>}},
     user_id : {Some([kind |-> "str", name |-> u]) : u \in Users},
     category : {None}, filters : {EmptyDict}, location : {None},
     budget_max : {None},
     platforms : {Some({"uber_eats", "uber", "lyft"})}]

InitPair ==
    /\ pc = [r \in ReqIds |-> "idle"]
    /\ request = [r \in ReqIds |-> [kind |-> "none"]]
    /\ state = [r \in ReqIds |-> NoState]
    /\ merged_filters = [r \in ReqIds |-> EmptyDict]
    /\ tasks = [r \in ReqIds |-> EmptyDict]
    /\ response = [r \in ReqIds |-> NoResponse]
    /\ profiles = EmptyDict
    /\ started = [r \in ReqIds |-> <<>>]
    /\ finished = [r \in ReqIds |-> <<>>]

\* request r's node ran to its end
RunNodeOf(r, node) ==
    /\ started' = [started EXCEPT ![r] = Append(@, node)]
    /\ finished' = [finished EXCEPT ![r] = Append(@, node)]
    /\ pc' = [pc EXCEPT ![r] = Edge(node)]

\* request r's node raised: execute_search's except branch
GraphFailedOf(r, node) ==
    /\ started' = [started EXCEPT ![r] = Append(@, node)]
    /\ finished' = finished
    /\ pc' = [pc EXCEPT ![r] = "done"]
    /\ response' = [response EXCEPT ![r] =
                      [kind |-> "returned",
                       category |-> IF request[r].category # None
                                    THEN Val(request[r].category) ELSE "product",
                       status |-> FAILED, result_count |-> 0, results |-> <<>>,
                       deals_found |-> <<>>]]

ExecuteSearchOf(r) ==
    /\ pc[r] = "idle"
    /\ \E req \in PairRequests :
        /\ request' = [request EXCEPT ![r] = req]
        /\ state' = [state EXCEPT ![Slot(r)] = create_initial_state(req)]
    /\ pc' = [pc EXCEPT ![r] = "parse_intent"]
    /\ UNCHANGED <<merged_filters, tasks, response, profiles, started, finished>>

ParseIntentOf(r) ==
    /\ pc[r] = "parse_intent"
    /\ LET intent == parse_user_query(state[Slot(r)].query)
       IN  state' = [state EXCEPT ![Slot(r)] =
                        [@ EXCEPT !.intent = Some(intent),
                                  !.category = intent.category,
                                  !.status = PROCESSING]]
    /\ RunNodeOf(r, "parse_intent")
    /\ UNCHANGED <<request, merged_filters, tasks, response, profiles>>

GetPreferencesOf(r) ==
    /\ pc[r] = "get_preferences"
    /\ LET st == state[Slot(r)]
       IN  IF st.user_id # None /\ get_preferences_raises(st.user_id)
           THEN /\ GraphFailedOf(r, "get_preferences")
                /\ UNCHANGED state
           ELSE /\ state' = [state EXCEPT ![Slot(r)] =
                               [@ EXCEPT !.user_preferences =
                                   IF st.user_id # None
                                   THEN get_preferences(st.user_id)
                                   ELSE [ref |-> None, value |-> EmptyDict]]]
                /\ RunNodeOf(r, "get_preferences")
                /\ UNCHANGED response
    /\ UNCHANGED <<request, merged_filters, tasks, profiles>>

\* search_node of request r up to the gather (PairRequests resolve to a
\* category that has an agent, so the two guards do not fire)
SearchNodeOf(r) ==
    /\ pc[r] = "search"
    /\ state[Slot(r)].category # None
    /\ Val(state[Slot(r)].category) \in category_agent_map
    /\ started' = [started EXCEPT ![r] = Append(@, "search")]
    /\ LET filters == MergedFilters(state[Slot(r)])
       IN  /\ merged_filters' = [merged_filters EXCEPT ![r] = filters]
           /\ tasks' = [tasks EXCEPT ![r] =
                 [p \in Range(Searchers(Val(state[Slot(r)].category), filters))
                     |-> Pending]]
    /\ pc' = [pc EXCEPT ![r] = "gather"]
    /\ UNCHANGED <<request, state, response, profiles, finished>>

\* the outcomes a set of spawned searchers may end with
Outcomes(platforms) ==
    {t \in [platforms ->
              UNION {{[st |-> "raised", out |-> <<>>]}
                     \cup {[st |-> "returned", out |-> out] :
                              out \in AdapterOutputs(p)} : p \in platforms}] :
        \A p \in platforms :
            t[p].st = "returned" => t[p].out \in AdapterOutputs(p)}

\* the gather of request r is over and search_node returns
SearchJoinOf(r) ==
    /\ pc[r] = "gather"
    /\ \E t \in Outcomes(DOMAIN tasks[r]) :
        /\ tasks' = [tasks EXCEPT ![r] = t]
        /\ LET category == Val(state[Slot(r)].category)
               order == Searchers(category, merged_filters[r])
               got == agent_search(category, merged_filters[r],
                                   GatherResults(order, t))
           IN  state' = [state EXCEPT ![Slot(r)] =
                            IF got.raised
                            THEN [@ EXCEPT !.errors = Append(@, "Search failed")]
                            ELSE [@ EXCEPT !.results = @ \o got.results]]
    /\ finished' = [finished EXCEPT ![r] = Append(@, "search")]
    /\ pc' = [pc EXCEPT ![r] = Edge("search")]
    /\ UNCHANGED <<request, merged_filters, response, profiles, started>>

FindDealsOf(r) ==
    /\ pc[r] = "find_deals"
    /\ state' = [state EXCEPT ![Slot(r)] =
                    IF @.category = None THEN @
                    ELSE [@ EXCEPT !.deals = @ \o find_deals(Val(state[Slot(r)].category))]]
    /\ RunNodeOf(r, "find_deals")
    /\ UNCHANGED <<request, merged_filters, tasks, response, profiles>>

FindDealsFailsOf(r) ==
    /\ pc[r] = "find_deals"
    /\ state[Slot(r)].category # None
    /\ state' = [state EXCEPT ![Slot(r)] =
                    [@ EXCEPT !.errors = Append(@, "Deal search failed")]]
    /\ RunNodeOf(r, "find_deals")
    /\ UNCHANGED <<request, merged_filters, tasks, response, profiles>>

ApplyDealsAndRankOf(r) ==
    /\ pc[r] = "apply_deals_and_rank"
    /\ LET st == state[Slot(r)]
           results == IF st.deals # <<>> THEN apply_deals(st.results, st.deals)
                      ELSE st.results
           weights == RankingWeights(Deref(st.user_preferences))
       IN  IF rank_results_raises(results, weights)
           THEN /\ GraphFailedOf(r, "apply_deals_and_rank")
                /\ state' = [state EXCEPT ![Slot(r)] = [@ EXCEPT !.results = results]]
           ELSE /\ state' = [state EXCEPT ![Slot(r)] =
                               [@ EXCEPT
                                  !.results = rank_results(results, weights),
                                  !.ranked_results =
                                      Take(rank_results(results, weights), TopN),
                                  !.status = FinalStatus(st.errors)]]
                /\ RunNodeOf(r, "apply_deals_and_rank")
                /\ UNCHANGED response
    /\ UNCHANGED <<request, merged_filters, tasks, profiles>>

RespondOf(r) ==
    /\ pc[r] = "END"
    /\ LET st == state[Slot(r)]
       IN  response' = [response EXCEPT ![r] =
              IF st.category = None \/ Val(st.category) \notin SearchCategory
              THEN [kind |-> "raised", category |-> "none", status |-> "none",
                    result_count |-> 0, results |-> <<>>, deals_found |-> <<>>]
              ELSE [kind |-> "returned", category |-> Val(st.category),
                    status |-> st.status,
                    result_count |-> Len(st.ranked_results),
                    results |-> st.ranked_results,
                    deals_found |-> st.deals]]
    /\ pc' = [pc EXCEPT ![r] = "done"]
    /\ UNCHANGED <<request, state, merged_filters, tasks, profiles,
                   started, finished>>

NextPair ==
    \/ \E r \in ReqIds : ExecuteSearchOf(r)
    \/ \E r \in ReqIds : ParseIntentOf(r)
    \/ \E r \in ReqIds : GetPreferencesOf(r)
    \/ \E r \in ReqIds : SearchNodeOf(r)
    \/ \E r \in ReqIds : SearchJoinOf(r)
    \/ \E r \in ReqIds : FindDealsOf(r)
    \/ \E r \in ReqIds : FindDealsFailsOf(r)
    \/ \E r \in ReqIds : ApplyDealsAndRankOf(r)
    \/ \E r \in ReqIds : RespondOf(r)
    \/ UpdatePreferences

SpecPair == InitPair /\ [][NextPair]_vars

-----------------------------------------------------------------------------
(* C16: each pipeline state is owned by one request.  With two requests in *)
(* flight on the same orchestrator, a step of one leaves the state, the    *)
(* tasks and the response of the other as they were and writes no          *)
(* preference mapping; and what a request answers is made of its own       *)
(* category's offers and deals only.                                       *)

\* what request r owns
Owned(r) == <<request[r], state[r], merged_filters[r], tasks[r], response[r],
              started[r], finished[r]>>

\* the offers the searchers of request r returned
RECURSIVE ReturnedCount(_, _)
ReturnedCount(r, S) ==
    IF S = {} THEN 0
    ELSE LET p == CHOOSE q \in S : TRUE
         IN  (IF tasks[r][p].st = "returned" THEN Len(tasks[r][p].out) ELSE 0)
             + ReturnedCount(r, S \ {p})

\* the response of r is made of what r's own query and searchers gave
OwnAnswer(r) ==
    LET category == detect_category(request[r].query.kw)
        own == Range(PLATFORM_SEARCHERS(category)) \cap Val(request[r].platforms)
    IN  /\ response[r].category = category
        /\ DOMAIN tasks[r] = own
        /\ response[r].result_count = ReturnedCount(r, own)
        /\ \A i \in 1..Len(response[r].results) :
              /\ response[r].results[i].platform \in own
              /\ tasks[r][response[r].results[i].platform].st = "returned"
        /\ \A i \in 1..Len(response[r].deals_found) :
              PLATFORM_CATEGORY(response[r].deals_found[i].platform) = category
        /\ response[r].status = COMPLETED
        /\ Len(state[r].errors) <= 1

C16_Step ==
    /\ \A r \in ReqIds : pc'[r] = pc[r] => Owned(r)' = Owned(r)
    /\ (\E r \in ReqIds : pc'[r] # pc[r]) => profiles' = profiles
    /\ \A r \in ReqIds :
          (pc[r] = "done" /\ finished[r] = StageOrder) => OwnAnswer(r)

C16_Isolation == [][C16_Step]_vars

\* both requests are in flight for the same user with a stored profile: one
\* is suspended in its gather, the other has offers, deals and an error in
\* its state and is about to rank
C16_Witness ==
    \E r, q \in ReqIds :
        /\ r # q
        /\ pc[r] = "gather"
        /\ pc[q] = "apply_deals_and_rank"
        /\ state[q].results # <<>>
        /\ state[q].category # state[r].category
        /\ state[r].user_preferences.ref # None
        /\ state[r].user_preferences.ref = state[q].user_preferences.ref

-----------------------------------------------------------------------------
(* The Discount Engine on its own.  SpecDeals calls apply_deals with a     *)
(* list of offers and a list of deals drawn from EngineOffers and          *)
(* EngineDeals and follows its two loops, one deal of one offer at a step: *)
(* request holds the arguments as they were passed, state the lists the    *)
(* loops work on in place, pc the position of the loops.                   *)

\* deals one call of apply_deals is given at most
MaxDeals == 2

\* an offer as a _normalise method builds it, with or without a breakdown
EngineOffer(platform, total, with_breakdown) ==
    SearchResultItem(platform, 1, total - 200, total,
        IF with_breakdown
        THEN Some(PriceBreakdown(total - 200, 0, 100, 100, total)) ELSE None,
        Some(30), Some(40))

EngineOffers ==
    { <<EngineOffer("uber", t, b)>> : t \in {500, 1200, 3400}, b \in BOOLEAN }
    \cup { <<EngineOffer("uber", 3400, TRUE), EngineOffer("lyft", 1200, TRUE)>>,
           <<EngineOffer("uber", 4000, TRUE)>>, <<EngineOffer("uber", 2000, TRUE)>> }

\* DealRead objects: a fixed amount (positive, zero, negative) or none, a
\* percentage or none, with and without min_order and max_discount
EngineDeals ==
    { DealRead("uber", Some("PROMO"), "promo", a, pct, mo, md) :
        a \in {None, Some(1000), Some(-300)}, pct \in {None, Some(20)},
        mo \in {None, Some(2500)}, md \in {None, Some(800)} }
    \cup { DealRead("uber", None, "zero", Some(0), None, None, None),
           DealRead("lyft", Some("LYFT15"), "15% off next 3 rides",
                    None, Some(15), None, Some(800)),
           DealRead("uber", Some("ZERO20"), "zero amount", Some(0), Some(20),
                    None, None),
           DealRead("uber", Some("CLAMP"), "clamp", None, Some(20), None,
                    Some(1000)),
           DealRead("uber", Some("CAP0"), "cap zero", None, Some(20), None,
                    Some(0)),
           DealRead("uber", Some("MIN0"), "no minimum", Some(100), None,
                    Some(0), None) }

\* the lists of at most n deals
RECURSIVE DealLists(_)
DealLists(n) ==
    IF n = 0 THEN {<<>>}
    ELSE DealLists(n - 1)
         \cup {Append(l, d) : l \in {m \in DealLists(n - 1) : Len(m) = n - 1},
                              d \in EngineDeals}

InitDeals ==
    /\ request \in [results : EngineOffers, deals : DealLists(MaxDeals)]
    /\ state = request
    /\ pc = [node |-> "apply_deals", result |-> 1, deal |-> 1]
    /\ merged_filters = EmptyDict
    /\ tasks = EmptyDict
    /\ response = NoResponse
    /\ profiles = EmptyDict
    /\ started = <<>>
    /\ finished = <<>>

\* every supplied deal, whatever its platform
PlatformDealsUnfiltered == state.deals

\* deal_map.get(result.platform, []) for the offer the outer loop is at
PlatformDeals ==
    SelectSeq(state.deals,
              LAMBDA d : d.platform = state.results[pc.result].platform)

\* one pass of the inner loop that tests min_order and takes the percentage
\* on the price the offer came with, not on the price the earlier deals left
ApplyDealStepOnOriginal ==
    /\ pc.node = "apply_deals"
    /\ pc.result <= Len(state.results)
    /\ pc.deal <= Len(PlatformDeals)
    /\ LET cur == state.results[pc.result]
           orig == [cur EXCEPT !.total_price =
                                  request.results[pc.result].total_price]
           probe == ApplyDeal(orig, PlatformDeals[pc.deal])
           total == cur.total_price - (orig.total_price - probe.total_price)
       IN  state' = [state EXCEPT !.results[pc.result] =
                        IF probe = orig THEN cur
                        ELSE [probe EXCEPT
                                !.total_price = total,
                                !.fees_breakdown =
                                   IF @ # None
                                   THEN Some([Val(@) EXCEPT !.total = total])
                                   ELSE @]]
    /\ pc' = [pc EXCEPT !.deal = @ + 1]
    /\ UNCHANGED <<request, merged_filters, tasks, response, profiles,
                   started, finished>>

\* one pass of the inner loop: the next deal of the offer's platform
ApplyDealStep ==
    /\ pc.node = "apply_deals"
    /\ pc.result <= Len(state.results)
    /\ pc.deal <= Len(PlatformDeals)
    /\ state' = [state EXCEPT !.results[pc.result] =
                    ApplyDeal(@, PlatformDeals[pc.deal])]
    /\ pc' = [pc EXCEPT !.deal = @ + 1]
    /\ UNCHANGED <<request, merged_filters, tasks, response, profiles,
                   started, finished>>

\* the inner loop is through: the outer loop moves to the next offer
NextResult ==
    /\ pc.node = "apply_deals"
    /\ pc.result <= Len(state.results)
    /\ pc.deal > Len(PlatformDeals)
    /\ pc' = [pc EXCEPT !.result = @ + 1, !.deal = 1]
    /\ UNCHANGED <<request, state, merged_filters, tasks, response, profiles,
                   started, finished>>

\* return results
ReturnResults ==
    /\ pc.node = "apply_deals"
    /\ pc.result > Len(state.results)
    /\ pc' = [pc EXCEPT !.node = "returned"]
    /\ response' = state.results
    /\ UNCHANGED <<request, state, merged_filters, tasks, profiles,
                   started, finished>>

NextDeals ==
    \/ ApplyDealStep
    \/ NextResult
    \/ ReturnResults

SpecDeals == InitDeals /\ [][NextDeals]_vars

-----------------------------------------------------------------------------
(* C17: after the Discount Engine has processed any offers with any deals, *)
(* every offer has total_price >= 0.                                       *)

C17_NonNegative ==
    \A i \in 1..Len(state.results) : state.results[i].total_price >= 0

-----------------------------------------------------------------------------
(* C18: after every mutation of an offer by the Discount Engine, the       *)
(* offer's total_price equals its fee breakdown's total, for every offer   *)
(* that has a fee breakdown, after each applied deal.                      *)

C18_TotalSynced ==
    \A i \in 1..Len(state.results) :
        state.results[i].fees_breakdown # None =>
            state.results[i].total_price
                = Val(state.results[i].fees_breakdown).total

\* two deals have been applied to an offer that has a breakdown
C18_Witness ==
    /\ pc.node = "returned"
    /\ state.results[1].fees_breakdown # None
    /\ Len(state.results[1].deals_applied) = 2
    /\ state.results[1].total_price < request.results[1].total_price

-----------------------------------------------------------------------------
(* C19: while deals are applied to an offer its total_price never          *)
(* increases: after each deal it is at most what it was before that deal,  *)
(* for every deal list, deals with negative or zero amounts included.      *)

C19_Step ==
    /\ Len(state'.results) = Len(state.results)
    /\ \A i \in 1..Len(state.results) :
          state'.results[i].total_price <= state.results[i].total_price

C19_NeverIncreases == [][C19_Step]_vars

\* the engine went through a deal of negative amount and one it applied
C19_Witness ==
    /\ pc.node = "returned"
    /\ Len(state.deals) = 2
    /\ state.deals[1].platform = "uber" /\ state.deals[2].platform = "uber"
    /\ state.deals[1].discount_amount = Some(-300)
    /\ state.deals[1].min_order = None
    /\ state.results[1].platform = "uber"
    /\ Len(state.results[1].deals_applied) = 1
    /\ state.results[1].total_price < request.results[1].total_price

-----------------------------------------------------------------------------
(* C20: in a pipeline run each supplied deal is applied at most once to    *)
(* each offer: the Discount Engine runs at most once per request, only in  *)
(* the apply-and-rank stage, and never on offers already discounted in     *)
(* that run.                                                               *)

\* the offer as its adapter's search() handed it over
AsSearched(r) ==
    LET c == Contribution(r.platform)
    IN  c[CHOOSE j \in 1..Len(c) : c[j].item_name = r.item_name]

\* the offer after one pass of the deals of its platform
DiscountedOnce(r) ==
    ApplyDealsTo(AsSearched(r),
                 SelectSeq(state.deals, LAMBDA d : d.platform = r.platform))

\* how often a label stands in a list of labels
Occurrences(label, labels) == Len(SelectSeq(labels, LAMBDA l : l = label))

C20_AppliedOnce ==
    /\ (pc # "idle" /\ "apply_deals_and_rank" \notin Range(started)) =>
          \A i \in 1..Len(state.results) :
              /\ state.results[i].deals_applied = <<>>
              /\ Val(state.results[i].fees_breakdown).discount = 0
    /\ (pc # "idle" /\ "apply_deals_and_rank" \in Range(started)) =>
          \A i \in 1..Len(state.results) :
              LET r == state.results[i]
              IN  /\ \A k \in 1..Len(state.deals) :
                        Occurrences(DealLabel(state.deals[k]), r.deals_applied) <= 1
                  /\ r.deals_applied = DiscountedOnce(r).deals_applied
                  /\ r.total_price = DiscountedOnce(r).total_price
                  /\ r.fees_breakdown = DiscountedOnce(r).fees_breakdown

\* the response holds an Uber Eats offer with its 20% deal applied, once
C20_Witness ==
    /\ pc = "done"
    /\ finished = StageOrder
    /\ \E i \in 1..Len(response.results) :
          /\ response.results[i].platform = "uber_eats"
          /\ Len(response.results[i].deals_applied) = 1
          /\ response.results[i].total_price = 2720

-----------------------------------------------------------------------------
(* C21: the raw discount of a deal is its discount_amount whenever         *)
(* discount_amount is present (also when a percent is present too, and     *)
(* also when the amount is 0), otherwise total_price * discount_percent /  *)
(* 100 when a percent is present, otherwise 0.                             *)

\* the inner loop stands before a deal of the offer the outer loop is at
AtDeal ==
    /\ pc.node = "apply_deals"
    /\ pc.result <= Len(state.results)
    /\ pc.deal <= Len(PlatformDeals)

C21_RawDiscount ==
    AtDeal =>
        LET deal == PlatformDeals[pc.deal]
            total_price == state.results[pc.result].total_price
        IN  RawDiscount(total_price, deal)
              = IF deal.discount_amount # None
                THEN 100 * Val(deal.discount_amount)
                ELSE IF deal.discount_percent # None
                     THEN total_price * Val(deal.discount_percent)
                ELSE 0

-----------------------------------------------------------------------------
(* C22: the discount a deal applies never exceeds the deal's max_discount  *)
(* when max_discount is set; a deal {discount_percent=20, max_discount=10} *)
(* on total_price=40 gives discount min(8,10)=8, new total_price 32.00 and *)
(* exactly one appended label.                                             *)

\* the inner loop goes through the deal it stands before
DealConsidered == AtDeal /\ pc'.deal = pc.deal + 1

C22_Step ==
    DealConsidered =>
        LET deal == PlatformDeals[pc.deal]
            before == state.results[pc.result]
            after == state'.results[pc.result]
        IN  /\ deal.max_discount # None =>
                  before.total_price - after.total_price <= Val(deal.max_discount)
            /\ ( /\ deal.discount_amount = None
                 /\ deal.discount_percent = Some(20)
                 /\ deal.max_discount = Some(1000)
                 /\ deal.min_order = None
                 /\ before.total_price = 4000 ) =>
                  /\ after.total_price = 3200
                  /\ after.deals_applied
                       = Append(before.deals_applied, DealLabel(deal))

C22_ClampedByMax == [][C22_Step]_vars

-----------------------------------------------------------------------------
(* C23: a deal whose min_order is set is skipped for every offer whose     *)
(* total_price is below min_order: the offer's total_price, fee breakdown  *)
(* and applied-deal labels are left unchanged (min_order=25 on             *)
(* total_price=20 changes nothing and appends no label).                   *)

C23_Step ==
    DealConsidered =>
        LET deal == PlatformDeals[pc.deal]
            before == state.results[pc.result]
            after == state'.results[pc.result]
        IN  ( /\ deal.min_order # None
              /\ before.total_price < Val(deal.min_order) ) =>
                /\ after.total_price = before.total_price
                /\ after.fees_breakdown = before.fees_breakdown
                /\ after.deals_applied = before.deals_applied

C23_BelowMinOrderSkipped == [][C23_Step]_vars

-----------------------------------------------------------------------------
(* C24: a deal only affects offers of its own platform and is considered   *)
(* in the order the deals were supplied: an offer whose platform matches   *)
(* no supplied deal leaves the Discount Engine with total_price, fee       *)
(* breakdown and labels unchanged, and the labels of an offer appear in    *)
(* deal-supply order.                                                      *)

\* a can be had from b by leaving elements out
RECURSIVE IsSubsequence(_, _)
IsSubsequence(a, b) ==
    IF a = <<>> THEN TRUE
    ELSE IF b = <<>> THEN FALSE
    ELSE IF Head(a) = Head(b) THEN IsSubsequence(Tail(a), Tail(b))
    ELSE IsSubsequence(a, Tail(b))

\* the labels of the supplied deals of a platform, in supply order
SuppliedLabels(platform) ==
    LET own == SelectSeq(request.deals, LAMBDA d : d.platform = platform)
    IN  [k \in 1..Len(own) |-> DealLabel(own[k])]

C24_OwnPlatformInOrder ==
    \A i \in 1..Len(state.results) :
        LET r == state.results[i]
        IN  /\ r.platform = request.results[i].platform
            /\ SuppliedLabels(r.platform) = <<>> =>
                  /\ r.total_price = request.results[i].total_price
                  /\ r.fees_breakdown = request.results[i].fees_breakdown
                  /\ r.deals_applied = request.results[i].deals_applied
            /\ IsSubsequence(r.deals_applied, SuppliedLabels(r.platform))

\* two Uber deals were applied to the Uber offer, in supply order, and the
\* Lyft offer next to it was left alone
C24_Witness ==
    /\ pc.node = "returned"
    /\ Len(request.results) = 2
    /\ Len(request.deals) = 2
    /\ request.deals[1].code = Some("CLAMP")
    /\ request.deals[2].code = Some("PROMO")
    /\ state.results[1].platform = "uber"
    /\ state.results[1].deals_applied
         = <<DealLabel(request.deals[1]), DealLabel(request.deals[2])>>
    /\ state.results[1].total_price < request.results[1].total_price
    /\ state.results[2].platform = "lyft"
    /\ state.results[2] = request.results[2]

-----------------------------------------------------------------------------
(* C25: a deal whose rounded discount is <= 0, in particular a deal with   *)
(* neither discount_amount nor discount_percent, has zero effect: no price *)
(* change, no fee-breakdown change and no label appended.                  *)

C25_Step ==
    DealConsidered =>
        LET deal == PlatformDeals[pc.deal]
            before == state.results[pc.result]
            after == state'.results[pc.result]
        IN  ( \/ DealDiscount(before.total_price, deal) <= 0
              \/ (deal.discount_amount = None /\ deal.discount_percent = None) ) =>
                /\ after.total_price = before.total_price
                /\ after.fees_breakdown = before.fees_breakdown
                /\ after.deals_applied = before.deals_applied

-----------------------------------------------------------------------------
(* The Ranking Engine on its own.  SpecRank calls rank_results with a list *)
(* of offers drawn from RankOffers and weights drawn from                  *)
(* RankWeightChoices and follows it: the scoring loop one offer at a step, *)
(* the sort, the ranking loop one offer at a step.  request holds the      *)
(* arguments as they were passed, state the list worked on in place, pc    *)
(* the position in the function.  An offer's item_name is its place in the *)
(* list that was passed.                                                   *)

\* offers one call of rank_results is given at most
MaxRanked == 3

\* an offer as a _normalise method builds it: fee is the delivery fee of its
\* breakdown, None for an offer without a breakdown
RankOffer(total, time, rating, fee) ==
    SearchResultItem("uber_eats", 0, total - 200, total,
        IF fee # None
        THEN Some(PriceBreakdown(total - 200, Val(fee), 100, 100, total))
        ELSE None,
        time, rating)

RankOffers ==
    { RankOffer(1000, Some(20), Some(45), Some(200)),
      RankOffer(2000, Some(40), Some(35), Some(0)),
      RankOffer(1000, None, None, None),
      RankOffer(2000, Some(20), Some(45), Some(200)),
      RankOffer(1500, Some(30), Some(40), Some(100)),
      RankOffer(1000, Some(40), Some(35), Some(0)) }

\* the lists of at most n offers, each offer named by its place
RECURSIVE RankLists(_)
RankLists(n) ==
    IF n = 0 THEN {<<>>}
    ELSE RankLists(n - 1)
         \cup {Append(l, [o EXCEPT !.item_name = n]) :
                    l \in {m \in RankLists(n - 1) : Len(m) = n - 1},
                    o \in RankOffers}

\* custom_weights: none, one override, all zero, a negative weight, and
\* the single weight 0.12346 on the price
RankWeightChoices ==
    { None,
      Some(Put(EmptyDict, "price", Some(100000))),
      Some([k \in WeightKeys |-> Some(0)]),
      Some(Put(EmptyDict, "price", Some(-40000))),
      Some([k \in WeightKeys |-> IF k = "price" THEN Some(12346) ELSE Some(0)]) }

InitRank ==
    /\ request \in [results : RankLists(MaxRanked),
                    custom_weights : RankWeightChoices]
    /\ state = [results |-> request.results]
    /\ pc = [node |-> "enter", idx |-> 1]
    /\ merged_filters = EmptyDict
    /\ tasks = EmptyDict
    /\ response = NoResponse
    /\ profiles = EmptyDict
    /\ started = <<>>
    /\ finished = <<>>

\* if not results: return results
ReturnEmpty ==
    /\ pc.node = "enter"
    /\ state.results = <<>>
    /\ pc' = [pc EXCEPT !.node = "returned"]
    /\ response' = state.results
    /\ UNCHANGED <<request, state, merged_filters, tasks, profiles,
                   started, finished>>

\* the weights are merged and the ranges collected: they are read off the
\* fields the loops leave alone
CollectRanges ==
    /\ pc.node = "enter"
    /\ state.results # <<>>
    /\ pc' = [pc EXCEPT !.node = "score"]
    /\ UNCHANGED <<request, state, merged_filters, tasks, response, profiles,
                   started, finished>>

\* one pass of the scoring loop
ScoreOffer ==
    /\ pc.node = "score"
    /\ pc.idx <= Len(state.results)
    /\ state' = [state EXCEPT !.results[pc.idx] =
                    Scored(state.results, request.custom_weights)[pc.idx]]
    /\ pc' = [pc EXCEPT !.idx = @ + 1]
    /\ UNCHANGED <<request, merged_filters, tasks, response, profiles,
                   started, finished>>

\* results.sort(key=lambda r: r.value_score or 0, reverse=True)
SortResults ==
    /\ pc.node = "score"
    /\ pc.idx > Len(state.results)
    /\ state' = [state EXCEPT !.results = SortDesc(@)]
    /\ pc' = [node |-> "rank", idx |-> 1]
    /\ UNCHANGED <<request, merged_filters, tasks, response, profiles,
                   started, finished>>

\* one pass of the ranking loop
AssignRank ==
    /\ pc.node = "rank"
    /\ pc.idx <= Len(state.results)
    /\ state' = [state EXCEPT !.results[pc.idx].rank = Some(pc.idx)]
    /\ pc' = [pc EXCEPT !.idx = @ + 1]
    /\ UNCHANGED <<request, merged_filters, tasks, response, profiles,
                   started, finished>>

\* return results
ReturnRanked ==
    /\ pc.node = "rank"
    /\ pc.idx > Len(state.results)
    /\ pc' = [pc EXCEPT !.node = "returned"]
    /\ response' = state.results
    /\ UNCHANGED <<request, state, merged_filters, tasks, profiles,
                   started, finished>>

NextRank ==
    \/ ReturnEmpty
    \/ CollectRanges
    \/ ScoreOffer
    \/ SortResults
    \/ AssignRank
    \/ ReturnRanked

SpecRank == InitRank /\ [][NextRank]_vars

-----------------------------------------------------------------------------
(* C26: for every non-empty offer list, after rank_results the rank fields *)
(* form exactly the permutation 1..N in list order, the list is sorted by  *)
(* value_score in non-increasing order, and the offer with rank 1 has the  *)
(* maximal value_score; an empty list is returned unchanged.               *)

C26_Ranked ==
    pc.node = "returned" =>
        /\ Len(response) = Len(request.results)
        /\ request.results = <<>> => response = request.results
        /\ {response[i].item_name : i \in 1..Len(response)}
             = 1..Len(request.results)
        /\ \A i \in 1..Len(response) :
              /\ response[i].rank = Some(i)
              /\ response[i].value_score # None
              /\ Val(response[1].value_score) >= Val(response[i].value_score)
              /\ i < Len(response) =>
                    Val(response[i].value_score)
                        >= Val(response[i + 1].value_score)

\* three offers came back in another order than they were passed in
C26_Witness ==
    /\ pc.node = "returned"
    /\ Len(response) = 3
    /\ response[1].item_name = 3
    /\ Val(response[1].value_score) > Val(response[2].value_score)
    /\ Val(response[2].value_score) > Val(response[3].value_score)

-----------------------------------------------------------------------------
(* C27: two offers with identical value_score keep, after ranking, the     *)
(* relative order in which they entered the ranking stage: the descending  *)
(* sort is stable.                                                         *)

C27_StableTies ==
    pc.node \in {"rank", "returned"} =>
        \A i \in 1..Len(state.results) : \A j \in 1..Len(state.results) :
            ( /\ i < j
              /\ state.results[i].value_score = state.results[j].value_score ) =>
                state.results[i].item_name < state.results[j].item_name

\* the third offer passed in came back first, the two before it tie and
\* came back in the order they had
C27_Witness ==
    /\ pc.node = "returned"
    /\ Len(response) = 3
    /\ response[1].item_name = 3
    /\ response[2].item_name = 1
    /\ response[3].item_name = 2
    /\ response[2].value_score = response[3].value_score
    /\ Val(response[1].value_score) > Val(response[2].value_score)

-----------------------------------------------------------------------------
(* C28: for non-negative weights every offer's value_score lies in         *)
(* [0, sum of the five weights], because each normalised dimension score   *)
(* lies in [0, 1] for every candidate set, sets with missing times,        *)
(* ratings or fee breakdowns included.                                     *)

\* the fraction lies in [0, 1]
InUnitInterval(f) == f[2] > 0 /\ 0 <= f[1] /\ f[1] <= f[2]

\* the five weights rank_results works with, in hundred-thousandths
MergedWeights(custom_weights) ==
    [price |-> Val(WeightOf(custom_weights, "price", WEIGHT_PRICE)),
     time |-> Val(WeightOf(custom_weights, "time", WEIGHT_TIME)),
     rating |-> Val(WeightOf(custom_weights, "rating", WEIGHT_RATING)),
     fees |-> Val(WeightOf(custom_weights, "fees", WEIGHT_FEES)),
     user_pref |-> Val(WeightOf(custom_weights, "user_pref", WEIGHT_USER_PREF))]

\* every dimension score of every offer lies in [0, 1]
DimensionsInUnitInterval ==
    \A i \in 1..Len(state.results) :
        LET s == DimensionScores(state.results, i)
        IN  /\ InUnitInterval(s.s_price)
            /\ InUnitInterval(s.s_time)
            /\ InUnitInterval(s.s_rating)
            /\ InUnitInterval(s.s_fees)

\* the sum of the five weights, in hundred-thousandths
WeightSum ==
    LET w == MergedWeights(request.custom_weights)
    IN  w.price + w.time + w.rating + w.fees + w.user_pref

NonNegativeWeights ==
    \A k \in WeightKeys : MergedWeights(request.custom_weights)[k] >= 0

\* the claim as it stands
C28_ScoreBounded ==
    /\ DimensionsInUnitInterval
    /\ NonNegativeWeights =>
          \A i \in 1..Len(state.results) :
              state.results[i].value_score # None =>
                  /\ 0 <= Val(state.results[i].value_score)
                  /\ 10 * Val(state.results[i].value_score) <= WeightSum

\* C28, amended: for non-negative weights every offer's value_score lies in
\* [0, the sum of the five weights rounded to 4 decimals], and every
\* normalised dimension score lies in [0, 1]
C28_ScoreBoundedRounded ==
    /\ DimensionsInUnitInterval
    /\ NonNegativeWeights =>
          \A i \in 1..Len(state.results) :
              state.results[i].value_score # None =>
                  /\ 0 <= Val(state.results[i].value_score)
                  /\ Val(state.results[i].value_score) <= Round(WeightSum, 10)

\* the offer that is best on every dimension, weighed with 0.12346 on the
\* price alone, is scored 0.1235, next to an offer without time, rating and
\* breakdown
C28_Witness ==
    /\ pc.node = "returned"
    /\ WeightSum = 12346
    /\ Len(response) = 3
    /\ response[1].value_score = Some(1235)
    /\ \E i \in 1..3 :
          /\ response[i].delivery_time_min = None
          /\ response[i].rating = None
          /\ response[i].fees_breakdown = None

-----------------------------------------------------------------------------
(* C29: an offer missing a delivery time is scored on the time dimension   *)
(* as if its time were the maximum observed in the set, and an offer       *)
(* missing a rating as if its rating were the minimum observed, so a       *)
(* missing value never scores better on that dimension than any offer      *)
(* that has the value.                                                     *)

\* fraction a is at most fraction b (denominators positive)
LeqFrac(a, b) == a[1] * b[2] <= b[1] * a[2]

C29_MissingIsWorst ==
    LET results == state.results
        times == Present(results, "delivery_time_min")
        ratings == Present(results, "rating")
    IN  \A i \in 1..Len(results) :
            LET s == DimensionScores(results, i)
            IN  /\ (results[i].delivery_time_min = None /\ times # <<>>) =>
                      /\ s.s_time = normalise_min_is_best(SeqMax(times),
                                        SeqMin(times), SeqMax(times))
                      /\ \A j \in 1..Len(results) :
                            results[j].delivery_time_min # None =>
                                LeqFrac(s.s_time,
                                        DimensionScores(results, j).s_time)
                /\ (results[i].rating = None /\ ratings # <<>>) =>
                      /\ s.s_rating = normalise_max_is_best(SeqMin(ratings),
                                        SeqMin(ratings), SeqMax(ratings))
                      /\ \A j \in 1..Len(results) :
                            results[j].rating # None =>
                                LeqFrac(s.s_rating,
                                        DimensionScores(results, j).s_rating)

\* an offer without time and rating was scored and ranked next to two
\* offers of different times and ratings
C29_Witness ==
    /\ pc.node = "returned"
    /\ Len(response) = 3
    /\ \E i \in 1..3 :
          /\ response[i].delivery_time_min = None
          /\ response[i].rating = None
          /\ response[i].value_score # None
    /\ Cardinality({response[i].delivery_time_min : i \in 1..3}) = 3
    /\ Cardinality({response[i].rating : i \in 1..3}) = 3

-----------------------------------------------------------------------------
(* C30: if all offers in the candidate set have the same total_price, the  *)
(* price-normalised component is 1.0 for every offer (not 0); the same     *)
(* degenerate-range rule gives 1.0 on the time, rating and fee dimensions  *)
(* when their min equals their max.                                        *)

\* the values of the sequence are all the same (and there is one)
AllSame(values) ==
    values # <<>> /\ \A i \in 1..Len(values) : values[i] = values[1]

C30_DegenerateRange ==
    LET results == state.results
        prices == [i \in 1..Len(results) |-> results[i].total_price]
        times == Present(results, "delivery_time_min")
        ratings == Present(results, "rating")
        fees == [i \in 1..Len(results) |-> FeeOf(results[i])]
    IN  \A i \in 1..Len(results) :
            LET s == DimensionScores(results, i)
            IN  /\ AllSame(prices) => s.s_price = <<1, 1>>
                /\ AllSame(times) => s.s_time = <<1, 1>>
                /\ AllSame(ratings) => s.s_rating = <<1, 1>>
                /\ AllSame(fees) => s.s_fees = <<1, 1>>

\* three offers of one price and different times were scored with the
\* weight 1.0 on the price: each has a value_score of at least 1.0
C30_Witness ==
    /\ pc.node = "returned"
    /\ Len(response) = 3
    /\ \A i \in 1..3 : response[i].total_price = response[1].total_price
    /\ Cardinality({response[i].delivery_time_min : i \in 1..3}) = 3
    /\ request.custom_weights = Some(Put(EmptyDict, "price", Some(100000)))
    /\ \A i \in 1..3 : Val(response[i].value_score) >= 10000

-----------------------------------------------------------------------------
(* C31: value_score is the weighted sum of the five normalised dimensions  *)
(* with default weights price 0.40, time 0.20, rating 0.20, fees 0.10,     *)
(* user-preference 0.10; a caller-supplied weight replaces only the        *)
(* default of its own key, every key not supplied keeps its default, and   *)
(* the weights stored in the caller's preferences are the ones used by the *)
(* pipeline.                                                               *)

\* the apply-and-rank stage runs through in this step
RankStageDone ==
    /\ pc = "apply_deals_and_rank"
    /\ "apply_deals_and_rank" \in Range(finished')

\* the ranking_weights stored in the preferences the run looked up
StoredWeights ==
    IF state.user_preferences.ref = None THEN None
    ELSE LET stored == profiles[Val(state.user_preferences.ref)]
         IN  IF "ranking_weights" \in DOMAIN stored
             THEN stored["ranking_weights"] ELSE None

\* the five weights the claim gives: the stored one of a key, else its default
ClaimedWeights ==
    LET default == [price |-> 40000, time |-> 20000, rating |-> 20000,
                    fees |-> 10000, user_pref |-> 10000]
    IN  Some([k \in WeightKeys |->
                IF StoredWeights # None /\ k \in DOMAIN Val(StoredWeights)
                THEN Val(StoredWeights)[k] ELSE Some(default[k])])

C31_Step ==
    RankStageDone =>
        LET discounted == IF state.deals # <<>>
                          THEN apply_deals(state.results, state.deals)
                          ELSE state.results
        IN  /\ Len(state'.results) = Len(discounted)
            /\ \A i \in 1..Len(state'.results) :
                  LET r == state'.results[i]
                      j == CHOOSE k \in 1..Len(discounted) :
                              /\ discounted[k].platform = r.platform
                              /\ discounted[k].item_name = r.item_name
                  IN  r.value_score
                        = Some(ValueScore(discounted, j, ClaimedWeights))

C31_WeightsUsed == [][C31_Step]_vars

\* a run ranked with the stored weight 1.0 on the price: its best offer
\* scores 1.0 or more, which the default weights cannot give
C31_Witness ==
    /\ pc = "done"
    /\ response.kind = "returned"
    /\ state.user_preferences.ref # None
    /\ \E i \in 1..Len(response.results) :
          Val(response.results[i].value_score) >= 10000

-----------------------------------------------------------------------------
(* C32: after ranking, every offer's savings_vs_max equals the maximum     *)
(* total_price over the whole candidate set minus the offer's own          *)
(* total_price; it is never negative and is 0 for a most expensive offer.  *)

C32_SavingsVsMax ==
    pc.node \in {"rank", "returned"} =>
        \A i \in 1..Len(state.results) :
            LET r == state.results[i]
            IN  /\ r.savings_vs_max # None
                /\ Val(r.savings_vs_max) >= 0
                /\ \E j \in 1..Len(request.results) :
                      Val(r.savings_vs_max)
                          = request.results[j].total_price - r.total_price
                /\ \A j \in 1..Len(request.results) :
                      Val(r.savings_vs_max)
                          >= request.results[j].total_price - r.total_price
                /\ (\A j \in 1..Len(request.results) :
                        r.total_price >= request.results[j].total_price) =>
                      Val(r.savings_vs_max) = 0

\* offers of three prices came back, the dearest with savings 0 and the
\* cheapest with the whole spread
C32_Witness ==
    /\ pc.node = "returned"
    /\ Len(response) = 3
    /\ {response[i].total_price : i \in 1..3} = {1000, 1500, 2000}
    /\ \A i \in 1..3 :
          response[i].savings_vs_max = Some(2000 - response[i].total_price)

-----------------------------------------------------------------------------
(* nlp_parser.py: _detect_category over every small score vector *)

\* the most keywords of one category that a query holds
MaxKeywordHits == 2

\* requests whose query scores each of the four keyword sets 0..MaxKeywordHits
ParseRequests ==
    { [query |-> [kw |-> <<f, p, r, h>>, budget |-> None],
       user_id |-> None, category |-> None, filters |-> EmptyDict,
       location |-> None, budget_max |-> None, platforms |-> None] :
         f \in 0..MaxKeywordHits, p \in 0..MaxKeywordHits,
         r \in 0..MaxKeywordHits, h \in 0..MaxKeywordHits }

InitParse ==
    /\ pc = "parse_intent"
    /\ request \in ParseRequests
    /\ state = create_initial_state(request)
    /\ merged_filters = EmptyDict
    /\ tasks = EmptyDict
    /\ response = NoResponse
    /\ profiles = EmptyDict
    /\ started = <<>>
    /\ finished = <<>>

NextParse == ParseIntent

SpecParse == InitParse /\ [][NextParse]_vars

\* the query has been parsed
Parsed == "parse_intent" \in Range(finished)

\* C33: the parsed category is the keyword set with the highest score; among
\* sets with the same highest score the first of food, product, ride, hotel
\* wins; when all four scores are 0 the category is product
C33_CategoryByScore ==
    Parsed =>
        LET kw == request.query.kw
        IN  /\ state.category # None
            /\ (\A i \in 1..4 : kw[i] = 0) => Val(state.category) = "product"
            /\ (\E i \in 1..4 : kw[i] > 0) =>
                  \E i \in 1..4 :
                     /\ Val(state.category) = CategoryOrder[i]
                     /\ \A j \in 1..4 : kw[j] <= kw[i]
                     /\ \A j \in 1..(i - 1) : kw[j] < kw[i]

\* ride and hotel tie for the highest score and ride, the earlier one, wins
C33_Witness ==
    /\ Parsed
    /\ request.query.kw = <<0, 1, 2, 2>>
    /\ state.category = Some("ride")

-----------------------------------------------------------------------------
(* user_profile_agent.py: record_choice on the stored profiles *)

\* the number in history[-50]
HistoryKeep == 50

\* the most record_choice calls of one run
MaxChoiceCalls == 2

\* a choice_history of n earlier choices, numbered oldest first
StoredHistory(n) == [kind |-> "list", items |-> [i \in 1..n |-> i]]

\* the lengths of a choice_history a caller stores with update_preferences
HistoryLengths == {0, 1, HistoryKeep - 2, HistoryKeep - 1, HistoryKeep}

\* the choices a caller records
NewChoices == {1001, 1002}

\* record_choice: the profiles and the outcome it leaves.  history[-50] is an
\* index, not a slice: it raises IndexError on a list shorter than 50 (after
\* the append has already changed a stored list in place) and otherwise
\* yields the one choice at that place, which is stored as the history.
record_choice(profs, user_id, choice) ==
    LET stored == user_id \in DOMAIN profs
        profile == IF stored THEN profs[user_id] ELSE EmptyDict
        has == "choice_history" \in DOMAIN profile
        history == IF has THEN profile["choice_history"] ELSE StoredHistory(0)
        appended == Append(history.items, choice)
        count == IF "search_history_count" \in DOMAIN profile
                 THEN profile["search_history_count"] ELSE 0
    IN  IF history.kind # "list"
        THEN [profiles |-> profs,
              response |-> [kind |-> "raised", error |-> "AttributeError"]]
        ELSE IF Len(appended) < HistoryKeep
        THEN [profiles |-> IF has
                           THEN Put(profs, user_id,
                                    Put(profile, "choice_history",
                                        [kind |-> "list", items |-> appended]))
                           ELSE profs,
              response |-> [kind |-> "raised", error |-> "IndexError"]]
        ELSE [profiles |->
                 Put(profs, user_id,
                     Put(Put(profile, "choice_history",
                             [kind |-> "dict",
                              items |-> <<appended[Len(appended) - HistoryKeep + 1]>>]),
                         "search_history_count", count + 1)),
              response |-> [kind |-> "returned", status |-> "recorded"]]

InitChoice ==
    /\ pc = "idle"
    /\ request = [op |-> "none"]
    /\ state = EmptyDict
    /\ merged_filters = EmptyDict
    /\ tasks = EmptyDict
    /\ response = NoResponse
    /\ profiles = EmptyDict
    /\ started = <<>>
    /\ finished = <<>>

\* update_preferences(user_id, {"choice_history": [...]})
StoreHistory ==
    /\ \E u \in Users, n \in HistoryLengths :
        LET existing == IF u \in DOMAIN profiles THEN profiles[u] ELSE EmptyDict
        IN  /\ profiles' = Put(profiles, u,
                               Merge(existing, Put(EmptyDict, "choice_history",
                                                   StoredHistory(n))))
            /\ request' = [op |-> "update_preferences", user_id |-> u,
                           choice |-> 0]
    /\ state' = profiles
    /\ response' = NoResponse
    /\ UNCHANGED <<pc, merged_filters, tasks, started, finished>>

\* one record_choice call; state keeps the profiles it found
RecordChoice ==
    /\ Len(finished) < MaxChoiceCalls
    /\ \E u \in Users, c \in NewChoices :
        LET out == record_choice(profiles, u, c)
        IN  /\ profiles' = out.profiles
            /\ response' = out.response
            /\ request' = [op |-> "record_choice", user_id |-> u, choice |-> c]
    /\ state' = profiles
    /\ finished' = Append(finished, "record_choice")
    /\ UNCHANGED <<pc, merged_filters, tasks, started>>

NextChoice ==
    \/ StoreHistory
    \/ RecordChoice

SpecChoice == InitChoice /\ [][NextChoice]_vars

\* the last n elements of a list, the whole list when it is shorter
LastN(s, n) == IF Len(s) <= n THEN s ELSE SubSeq(s, Len(s) - n + 1, Len(s))

\* the choice history and the count a profiles store holds for a user
HistoryOf(profs, u) ==
    IF u \in DOMAIN profs /\ "choice_history" \in DOMAIN profs[u]
    THEN profs[u]["choice_history"] ELSE StoredHistory(0)

CountOf(profs, u) ==
    IF u \in DOMAIN profs /\ "search_history_count" \in DOMAIN profs[u]
    THEN profs[u]["search_history_count"] ELSE 0

\* C34: every record_choice call returns status 'recorded', leaves the user's
\* history as the list of the last 50 of the earlier choices followed by the
\* new one, and has raised search_history_count by one
C34_ChoiceRecorded ==
    request.op = "record_choice" =>
        /\ response = [kind |-> "returned", status |-> "recorded"]
        /\ HistoryOf(profiles, request.user_id) =
              [kind |-> "list",
               items |-> LastN(Append(HistoryOf(state, request.user_id).items,
                                      request.choice), HistoryKeep)]
        /\ CountOf(profiles, request.user_id) =
              CountOf(state, request.user_id) + 1

-----------------------------------------------------------------------------
(* C35: for an offer with several matching deals, each deal's min_order    *)
(* test and percentage discount are evaluated on the total_price that the  *)
(* earlier deals of the list have left (the running total, not the price   *)
(* the offer came with), so the final price can depend on the deals' order. *)

\* the discount of a percentage on a price, clamped and rounded (cents)
PercentOn(total_price, deal) ==
    LET raw == total_price * Val(deal.discount_percent)
        clamped == IF Truthy(deal.max_discount)
                   THEN Min(raw, 100 * Val(deal.max_discount)) ELSE raw
    IN  Max(0, Round(clamped, 100))

C35_Step ==
    DealConsidered =>
        LET deal == PlatformDeals[pc.deal]
            before == state.results[pc.result]
            after == state'.results[pc.result]
            running == before.total_price
            met == ~(Truthy(deal.min_order) /\ running < Val(deal.min_order))
        IN  /\ ~met => after = before
            /\ ( /\ met
                 /\ ~Truthy(deal.discount_amount)
                 /\ Truthy(deal.discount_percent) ) =>
                   after.total_price = running - PercentOn(running, deal)
            /\ ( /\ met
                 /\ deal.discount_amount # None
                 /\ Val(deal.discount_amount) > 0
                 /\ ~Truthy(deal.max_discount) ) =>
                   after.total_price = running - Val(deal.discount_amount)

C35_CompoundOnRunningTotal == [][C35_Step]_vars

\* two deals of the offer's platform, the second a percentage taken on what
\* the first left, and the other order of the two ends at another price
C35_Witness ==
    /\ pc.node = "returned"
    /\ Len(request.results) = 1
    /\ Len(request.deals) = 2
    /\ \A k \in 1..2 : request.deals[k].platform = request.results[1].platform
    /\ request.results[1].total_price = 3400
    /\ request.deals[1].discount_amount = Some(1000)
    /\ request.deals[1].min_order = None
    /\ request.deals[2].discount_amount = None
    /\ request.deals[2].discount_percent = Some(20)
    /\ request.deals[2].min_order = None
    /\ response[1].total_price = 1920
    /\ ApplyDealsTo(request.results[1],
                    <<request.deals[2], request.deals[1]>>).total_price = 1720

-----------------------------------------------------------------------------
(* C36: after apply_deals, for every offer with a fee breakdown, the       *)
(* breakdown's discount field has grown by exactly the sum of the          *)
(* discounts applied, which equals the offer's total_price before minus    *)
(* after, and the number of labels appended equals the number of deals     *)
(* that changed the price.                                                 *)

\* the discounts (cents) of the deals of a list that are not skipped for
\* min_order and come to more than nothing, each taken on the price the
\* earlier ones left
RECURSIVE DiscountsApplied(_, _)
DiscountsApplied(total_price, platform_deals) ==
    IF platform_deals = <<>> THEN <<>>
    ELSE LET deal == Head(platform_deals)
             skipped == Truthy(deal.min_order) /\ total_price < Val(deal.min_order)
             discount == DealDiscount(total_price, deal)
         IN  IF ~skipped /\ discount > 0
             THEN <<discount>> \o DiscountsApplied(total_price - discount,
                                                   Tail(platform_deals))
             ELSE DiscountsApplied(total_price, Tail(platform_deals))

\* how many deals of the list changed the offer's price
RECURSIVE PriceChanges(_, _)
PriceChanges(result, platform_deals) ==
    IF platform_deals = <<>> THEN 0
    ELSE LET next == ApplyDeal(result, Head(platform_deals))
         IN  (IF next.total_price # result.total_price THEN 1 ELSE 0)
             + PriceChanges(next, Tail(platform_deals))

RECURSIVE SeqSum(_)
SeqSum(s) == IF s = <<>> THEN 0 ELSE Head(s) + SeqSum(Tail(s))

C36_DiscountBooked ==
    pc.node = "returned" =>
        \A i \in 1..Len(response) :
            LET before == request.results[i]
                after == response[i]
                own == SelectSeq(request.deals,
                                 LAMBDA d : d.platform = before.platform)
                applied == DiscountsApplied(before.total_price, own)
            IN  before.fees_breakdown # None =>
                  /\ after.fees_breakdown # None
                  /\ Val(after.fees_breakdown).discount
                       - Val(before.fees_breakdown).discount = SeqSum(applied)
                  /\ SeqSum(applied) = before.total_price - after.total_price
                  /\ Len(after.deals_applied) - Len(before.deals_applied)
                       = PriceChanges(before, own)

\* 34.00 with a breakdown, a 10.00 deal and a 20% deal: the discount field
\* grew by 10.00 + 4.80, the price fell by as much, two labels were appended
C36_Witness ==
    /\ pc.node = "returned"
    /\ Len(request.results) = 1
    /\ request.results[1].fees_breakdown # None
    /\ request.results[1].total_price = 3400
    /\ Len(request.deals) = 2
    /\ response[1].total_price = 1920
    /\ Val(response[1].fees_breakdown).discount
         = Val(request.results[1].fees_breakdown).discount + 1480
    /\ Len(response[1].deals_applied)
         = Len(request.results[1].deals_applied) + 2

-----------------------------------------------------------------------------
(* C37: rank_results changes only value_score, rank, savings_vs_max and    *)
(* the order of the list: the multiset of offers is preserved and every    *)
(* offer's total_price, fee breakdown and applied-deal labels are          *)
(* unchanged; ranking an already ranked list again yields the same order,  *)
(* scores and ranks.                                                       *)

\* an offer without the three fields rank_results writes
Unranked(r) ==
    [r EXCEPT !.value_score = None, !.rank = None, !.savings_vs_max = None]

\* how often an offer occurs in a list, the three fields set aside
TimesIn(r, results) ==
    Cardinality({j \in 1..Len(results) : Unranked(results[j]) = Unranked(r)})

C37_OnlyRankingFields ==
    /\ Len(state.results) = Len(request.results)
    /\ \A i \in 1..Len(request.results) :
          TimesIn(request.results[i], state.results)
            = TimesIn(request.results[i], request.results)
    /\ pc.node = "returned" =>
          rank_results(response, request.custom_weights) = response

\* three offers left in another order than they came in, each with the
\* price, breakdown and labels it came with
C37_Witness ==
    /\ pc.node = "returned"
    /\ Len(response) = 3
    /\ response[1].item_name = 3
    /\ response[3].item_name = 1
    /\ \A i \in 1..3 :
          LET was == request.results[response[i].item_name]
          IN  /\ response[i].total_price = was.total_price
              /\ response[i].fees_breakdown = was.fees_breakdown
              /\ response[i].deals_applied = was.deals_applied
              /\ response[i].rank = Some(i)

-----------------------------------------------------------------------------
(* cache.py: the in-memory fallback of CacheService (no Redis connected).  *)
(* state is _MEM_CACHE as the list of its entries in dict order; started   *)
(* and tasks are history: the keys from the least to the most recently     *)
(* used, and the value last set under each key written in this run.        *)

_MAX_MEM == 1000

\* the most cache calls of one run
MaxCacheCalls == 2

\* the keys _cache_key gives the calls, and the values they store
CacheKeys == {1, 2, _MAX_MEM + 1}
CacheValues == { [type |-> "list", items |-> <<1, 2>>],
                 [type |-> "tuple", items |-> <<1, 2>>] }

\* json.loads(json.dumps(value, default=str)): a tuple comes back as a list
json_dumps(value) == [value EXCEPT !.type = IF @ = "tuple" THEN "list" ELSE @]

\* _MEM_CACHE after n sets of the keys 1..n
FilledCache(n) ==
    [i \in 1..n |-> [key |-> i, raw |-> json_dumps([type |-> "list", items |-> <<>>])]]

CachedKeys(cache) == {cache[i].key : i \in 1..Len(cache)}

\* a list of keys without one key
Without(keys, key) == SelectSeq(keys, LAMBDA k : k # key)

InitCache ==
    /\ pc = "idle"
    /\ request = [op |-> "none"]
    /\ state \in {FilledCache(n) : n \in {0, _MAX_MEM - 1, _MAX_MEM}}
    /\ started = [i \in 1..Len(state) |-> state[i].key]
    /\ tasks = EmptyDict
    /\ merged_filters = EmptyDict
    /\ response = NoResponse
    /\ profiles = EmptyDict
    /\ finished = <<>>

\* CacheService.set: a full dict loses its first entry, then the key is
\* assigned (a key the dict holds keeps its place)
CacheSet ==
    /\ Len(finished) < MaxCacheCalls
    /\ \E key \in CacheKeys, value \in CacheValues :
        LET full == Len(state) >= _MAX_MEM
            kept == IF full THEN Tail(state) ELSE state
            entry == [key |-> key, raw |-> json_dumps(value)]
            evicted == IF full THEN {state[1].key} ELSE {}
            known == [k \in DOMAIN tasks \ evicted |-> tasks[k]]
        IN  /\ state' = IF key \in CachedKeys(kept)
                        THEN [i \in 1..Len(kept) |->
                                 IF kept[i].key = key THEN entry ELSE kept[i]]
                        ELSE Append(kept, entry)
            /\ started' = Append(Without(IF full THEN Without(started, state[1].key)
                                         ELSE started, key), key)
            /\ tasks' = Put(known, key, value)
            /\ request' = [op |-> "set", key |-> key]
    /\ response' = NoResponse
    /\ finished' = Append(finished, "set")
    /\ UNCHANGED <<pc, merged_filters, profiles>>

\* CacheService.get: the dict is read and left as it is
CacheGet ==
    /\ Len(finished) < MaxCacheCalls
    /\ \E key \in CacheKeys :
        /\ response' =
              IF key \in CachedKeys(state)
              THEN [kind |-> "returned",
                    value |-> Some((CHOOSE e \in Range(state) : e.key = key).raw)]
              ELSE [kind |-> "returned", value |-> None]
        /\ started' = IF key \in CachedKeys(state)
                      THEN Append(Without(started, key), key) ELSE started
        /\ request' = [op |-> "get", key |-> key]
    /\ finished' = Append(finished, "get")
    /\ UNCHANGED <<pc, state, tasks, merged_filters, profiles>>

\* CacheService.invalidate
CacheInvalidate ==
    /\ Len(finished) < MaxCacheCalls
    /\ \E key \in CacheKeys :
        /\ state' = SelectSeq(state, LAMBDA e : e.key # key)
        /\ started' = Without(started, key)
        /\ tasks' = [k \in DOMAIN tasks \ {key} |-> tasks[k]]
        /\ request' = [op |-> "invalidate", key |-> key]
    /\ response' = NoResponse
    /\ finished' = Append(finished, "invalidate")
    /\ UNCHANGED <<pc, merged_filters, profiles>>

NextCache ==
    \/ CacheSet
    \/ CacheGet
    \/ CacheInvalidate

SpecCache == InitCache /\ [][NextCache]_vars

\* C38: the in-memory cache is a bounded LRU: it never holds more than 1000
\* entries, a set of a new key on a full cache evicts the least recently
\* used entry (a get counts as a use), and a get of a key that was set and
\* neither invalidated nor evicted since returns the value that was set
C38_Step ==
    /\ Len(state') <= _MAX_MEM
    /\ ( /\ request'.op = "set"
         /\ Len(state) >= _MAX_MEM
         /\ request'.key \notin CachedKeys(state) ) =>
           CachedKeys(state')
             = (CachedKeys(state) \ {Head(started)}) \cup {request'.key}
    /\ ( /\ request'.op = "get"
         /\ request'.key \in DOMAIN tasks ) =>
           response'.value = Some(tasks[request'.key])

C38_BoundedLRU == [][C38_Step]_vars

-----------------------------------------------------------------------------
(* notifications.py: NotificationService.  state holds _subscribers and    *)
(* _pending; started lists the callbacks the running publish has called.   *)
(* Both log calls of the module pass event=event_type next to the          *)
(* positional event name; the bound logger that logging_config.py sets up  *)
(* takes the event name as its parameter "event", so the call raises       *)
(* TypeError (multiple values for argument 'event').                       *)

\* the most subscribe calls and publish calls of one run
MaxSubscriptions == 2
MaxPublishes == 2

EventTypes == {"price_drop", "surge_alert"}

\* the callbacks subscribed to an event type, in subscription order
SubscribersOf(event_type) ==
    IF event_type \in DOMAIN state.subscribers
    THEN state.subscribers[event_type] ELSE <<>>

SubscriptionCount ==
    LET RECURSIVE Total(_)
        Total(S) == IF S = {} THEN 0
                    ELSE LET e == CHOOSE x \in S : TRUE
                         IN  Len(state.subscribers[e]) + Total(S \ {e})
    IN  Total(DOMAIN state.subscribers)

InitNotify ==
    /\ pc = [node |-> "idle", idx |-> 1]
    /\ request = [op |-> "none"]
    /\ state = [subscribers |-> EmptyDict, pending |-> <<>>]
    /\ started = <<>>
    /\ finished = <<>>
    /\ response = NoResponse
    /\ merged_filters = EmptyDict
    /\ tasks = EmptyDict
    /\ profiles = EmptyDict

\* subscribe: the callback is appended, then logger.info(..., event=...)
\* raises TypeError out of subscribe
Subscribe ==
    /\ pc.node = "idle"
    /\ SubscriptionCount < MaxSubscriptions
    /\ \E event_type \in EventTypes, raises \in BOOLEAN :
        LET callback == [id |-> SubscriptionCount + 1, raises |-> raises]
        IN  /\ state' = [state EXCEPT !.subscribers =
                            Put(@, event_type,
                                Append(SubscribersOf(event_type), callback))]
            /\ request' = [op |-> "subscribe", event |-> event_type,
                           timestamp |-> 0]
    /\ response' = [kind |-> "raised", error |-> "TypeError"]
    /\ UNCHANGED <<pc, started, finished, merged_filters, tasks, profiles>>

\* publish up to the loop: the notification is built and appended
PublishStart ==
    /\ pc.node = "idle"
    /\ Len(finished) < MaxPublishes
    /\ \E event_type \in EventTypes :
        LET notification == [event |-> event_type,
                             timestamp |-> Len(finished) + 1]
        IN  /\ state' = [state EXCEPT !.pending = Append(@, notification)]
            /\ request' = [op |-> "publish", event |-> event_type,
                           timestamp |-> notification.timestamp]
    /\ pc' = [node |-> "callbacks", idx |-> 1]
    /\ started' = <<>>
    /\ finished' = Append(finished, "publish")
    /\ response' = NoResponse
    /\ UNCHANGED <<merged_filters, tasks, profiles>>

\* await cb(notification) returns
CallbackReturns ==
    /\ pc.node = "callbacks"
    /\ pc.idx <= Len(SubscribersOf(request.event))
    /\ ~SubscribersOf(request.event)[pc.idx].raises
    /\ started' = Append(started, SubscribersOf(request.event)[pc.idx].id)
    /\ pc' = [pc EXCEPT !.idx = @ + 1]
    /\ UNCHANGED <<request, state, finished, response, merged_filters, tasks,
                   profiles>>

\* await cb(notification) raises: the except branch calls
\* logger.error(..., event=event_type, ...), whose TypeError leaves publish
CallbackRaises ==
    /\ pc.node = "callbacks"
    /\ pc.idx <= Len(SubscribersOf(request.event))
    /\ SubscribersOf(request.event)[pc.idx].raises
    /\ started' = Append(started, SubscribersOf(request.event)[pc.idx].id)
    /\ pc' = [node |-> "idle", idx |-> 1]
    /\ response' = [kind |-> "raised", error |-> "TypeError"]
    /\ UNCHANGED <<request, state, finished, merged_filters, tasks, profiles>>

\* the loop is through: publish returns None
PublishReturns ==
    /\ pc.node = "callbacks"
    /\ pc.idx > Len(SubscribersOf(request.event))
    /\ pc' = [node |-> "idle", idx |-> 1]
    /\ response' = [kind |-> "returned", value |-> None]
    /\ UNCHANGED <<request, state, started, finished, merged_filters, tasks,
                   profiles>>

NextNotify ==
    \/ Subscribe
    \/ PublishStart
    \/ CallbackReturns
    \/ CallbackRaises
    \/ PublishReturns

SpecNotify == InitNotify /\ [][NextNotify]_vars

\* C39: a publish that has ended has appended its notification to pending
\* exactly once, has called every subscriber of the event type in
\* subscription order, also those behind a subscriber that raised, and has
\* returned without raising
C39_PublishDelivers ==
    (request.op = "publish" /\ pc.node = "idle") =>
        /\ Cardinality({i \in 1..Len(state.pending) :
                          state.pending[i] = [event |-> request.event,
                                              timestamp |-> request.timestamp]}) = 1
        /\ started = [i \in 1..Len(SubscribersOf(request.event)) |->
                         SubscribersOf(request.event)[i].id]
        /\ response = [kind |-> "returned", value |-> None]

-----------------------------------------------------------------------------
(* scraper.py: fetch_json, fetch_html and post_json.  The three have the   *)
(* same body around their request: _get_semaphore(platform), async with    *)
(* sem, under @retry(stop=stop_after_attempt(3)).  tasks counts the calls  *)
(* in flight by where they stand; state is _SEMAPHORES, each semaphore by  *)
(* the permits it has left.                                                *)

\* _get_semaphore's max_concurrent, and the argument of stop_after_attempt
max_concurrent == 5
StopAfterAttempt == 3

\* the most calls of one run
MaxCalls == 6

ScrapeMethods == {"fetch_json", "fetch_html", "post_json"}
ScrapePlatforms == {"uber", "lyft"}

\* one call more, or one call less, standing at a place
Arrive(calls, at) ==
    Put(calls, at, IF at \in DOMAIN calls THEN calls[at] + 1 ELSE 1)

Leave(calls, at) ==
    IF calls[at] = 1 THEN [a \in DOMAIN calls \ {at} |-> calls[a]]
    ELSE [calls EXCEPT ![at] = @ - 1]

CallCount ==
    LET RECURSIVE Total(_)
        Total(S) == IF S = {} THEN 0
                    ELSE LET a == CHOOSE x \in S : TRUE
                         IN  tasks[a] + Total(S \ {a})
    IN  Total(DOMAIN tasks)

\* the calls that are inside "async with sem" for a platform
Holding(platform) ==
    LET RECURSIVE Total(_)
        Total(S) == IF S = {} THEN 0
                    ELSE LET a == CHOOSE x \in S : TRUE
                         IN  tasks[a] + Total(S \ {a})
    IN  Total({a \in DOMAIN tasks : a.platform = platform /\ a.at = "holding"})

\* _get_semaphore: the platform's semaphore, made with max_concurrent
\* permits when the platform has none yet
get_semaphore(platform) ==
    IF platform \in DOMAIN state THEN state ELSE Put(state, platform, max_concurrent)

InitScraper ==
    /\ pc = "idle"
    /\ request = [op |-> "none"]
    /\ state = EmptyDict
    /\ tasks = EmptyDict
    /\ started = <<>>
    /\ finished = <<>>
    /\ response = NoResponse
    /\ merged_filters = EmptyDict
    /\ profiles = EmptyDict

\* a caller awaits one of the three methods: its first attempt begins
StartCall ==
    /\ CallCount < MaxCalls
    /\ \E method \in ScrapeMethods, platform \in ScrapePlatforms :
        tasks' = Arrive(tasks, [platform |-> platform, at |-> "acquire",
                                attempt |-> 1])
    /\ UNCHANGED <<pc, request, state, started, finished, response,
                   merged_filters, profiles>>

\* sem = _get_semaphore(platform); async with sem: a permit is taken
Acquire ==
    /\ \E a \in DOMAIN tasks :
        /\ a.at = "acquire"
        /\ get_semaphore(a.platform)[a.platform] > 0
        /\ state' = [get_semaphore(a.platform) EXCEPT ![a.platform] = @ - 1]
        /\ tasks' = Arrive(Leave(tasks, a), [a EXCEPT !.at = "holding"])
    /\ UNCHANGED <<pc, request, started, finished, response, merged_filters,
                   profiles>>

\* the request succeeds: the block is left, the permit given back, the
\* call returns
AttemptSucceeds ==
    /\ \E a \in DOMAIN tasks :
        /\ a.at = "holding"
        /\ state' = [state EXCEPT ![a.platform] = @ + 1]
        /\ tasks' = Arrive(Leave(tasks, a), [a EXCEPT !.at = "returned"])
    /\ UNCHANGED <<pc, request, started, finished, response, merged_filters,
                   profiles>>

\* an attempt that raises and leaves the permit taken
AttemptFailsKeepsSlot ==
    /\ \E a \in DOMAIN tasks :
        /\ a.at = "holding"
        /\ tasks' = Arrive(Leave(tasks, a),
                           IF a.attempt < StopAfterAttempt
                           THEN [a EXCEPT !.at = "acquire", !.attempt = @ + 1]
                           ELSE [a EXCEPT !.at = "raised"])
    /\ UNCHANGED <<pc, request, state, started, finished, response,
                   merged_filters, profiles>>

\* the request raises: the block is left through the exception, the permit
\* given back; tenacity starts the next attempt, or after the third one
\* raises out of the call
AttemptFails ==
    /\ \E a \in DOMAIN tasks :
        /\ a.at = "holding"
        /\ state' = [state EXCEPT ![a.platform] = @ + 1]
        /\ tasks' = Arrive(Leave(tasks, a),
                           IF a.attempt < StopAfterAttempt
                           THEN [a EXCEPT !.at = "acquire", !.attempt = @ + 1]
                           ELSE [a EXCEPT !.at = "raised"])
    /\ UNCHANGED <<pc, request, started, finished, response, merged_filters,
                   profiles>>

NextScraper ==
    \/ StartCall
    \/ Acquire
    \/ AttemptSucceeds
    \/ AttemptFails

SpecScraper == InitScraper /\ [][NextScraper]_vars

\* C40: at most 5 calls per platform are inside the semaphore at any time,
\* whichever of the three methods they are and whichever attempt; every
\* permit that no call holds is free again, after a success as after a
\* failure; and a call makes at most 3 attempts, its error leaving the call
\* after the third
C40_RateLimited ==
    /\ \A platform \in ScrapePlatforms :
          /\ Holding(platform) <= 5
          /\ platform \in DOMAIN state =>
                state[platform] = 5 - Holding(platform)
    /\ \A a \in DOMAIN tasks :
          /\ a.attempt <= 3
          /\ a.at = "raised" => a.attempt = 3

\* five calls hold the platform's permits, and a sixth, whose first attempt
\* failed and gave its permit back, waits for one
C40_Witness ==
    /\ Holding("uber") = 5
    /\ state["uber"] = 0
    /\ \E a \in DOMAIN tasks :
          a.platform = "uber" /\ a.at = "acquire" /\ a.attempt = 2

====
